---- MODULE Spec2Model ----
(***************************************************************************)
(* The faculty-page cleaner of grad-insight                                *)
(* (tools/faculty-cleaner): cleanFacultyHtml and its stages, over a DOM    *)
(* tree, as a state machine that runs the stages one after the other.      *)
(*                                                                         *)
(* Text is a sequence of characters, each a record [c, n]: c is the        *)
(* character (a one-character string, or a name such as "U+00A0" for a     *)
(* character outside ASCII) and n its repetition.  Only the filler letter  *)
(* "x", which occurs in no pattern of the program, is ever repeated        *)
(* (n > 1), so that a text of tens of thousands of letters stays one       *)
(* record.  Attribute names, attribute values and tag names are strings.   *)
(***************************************************************************)
EXTENDS Integers, Sequences, FiniteSets, TLC

VARIABLES pc, pass, base, doc, scope, out, first, orig, todo, grab, sheet, push

vars == <<pc, pass, base, doc, scope, out, first, orig, todo, grab, sheet, push>>

\* the three command-line programs (grab.ts, runSheet.ts, the main of
\* pushDir.ts) each have their state in one variable; a program that is not
\* run is Off
Off == [run |-> "off"]

----------------------------------------------------------------------------
(* Strings (attribute values, tag names)                                   *)

Min(a, b) == IF a < b THEN a ELSE b
Max(a, b) == IF a > b THEN a ELSE b

UpperAlpha == "ABCDEFGHIJKLMNOPQRSTUVWXYZ"
LowerAlpha == "abcdefghijklmnopqrstuvwxyz"

CharAt(s, i) == SubSeq(s, i, i)

IsUpper(ch) == \E i \in 1..26 : CharAt(UpperAlpha, i) = ch
IsLower(ch) == \E i \in 1..26 : CharAt(LowerAlpha, i) = ch
IsLetter(ch) == IsUpper(ch) \/ IsLower(ch)

\* String.prototype.toLowerCase on one character
LowerCh(ch) ==
  IF IsUpper(ch)
  THEN CharAt(LowerAlpha, CHOOSE i \in 1..26 : CharAt(UpperAlpha, i) = ch)
  ELSE ch

RECURSIVE ToLower(_)
ToLower(s) == IF s = "" THEN "" ELSE LowerCh(CharAt(s, 1)) \o ToLower(SubSeq(s, 2, Len(s)))

\* String.prototype.includes
Includes(s, key) ==
  \E i \in 1..(Len(s) - Len(key) + 1) : SubSeq(s, i, i + Len(key) - 1) = key

\* String.prototype.startsWith
StartsWith(s, key) == Len(s) >= Len(key) /\ SubSeq(s, 1, Len(key)) = key

\* the characters JavaScript's \s, trim() and trimEnd() take as white space
WsChars == {" ", "\t", "\n", "\r", "\f", "U+00A0", "U+3000"}
IsWs(c) == c \in WsChars

----------------------------------------------------------------------------
(* Text: sequences of [c, n]                                               *)

Ch(c) == [c |-> c, n |-> 1]

\* n filler letters
Fill(n) == IF n = 0 THEN <<>> ELSE <<[c |-> "x", n |-> n]>>

\* adjacent runs of the filler letter are one run
RECURSIVE Canon(_)
Canon(s) ==
  IF Len(s) < 2 THEN s
  ELSE IF s[1].c = "x" /\ s[2].c = "x"
       THEN Canon(<<[c |-> "x", n |-> s[1].n + s[2].n]>> \o SubSeq(s, 3, Len(s)))
       ELSE <<s[1]>> \o Canon(Tail(s))

\* the text of an ASCII string
T(str) == Canon([i \in 1..Len(str) |-> Ch(CharAt(str, i))])

\* the characters of a pattern (no pattern holds the filler letter)
Pat(str) == [i \in 1..Len(str) |-> CharAt(str, i)]

RECURSIVE TLen(_)
TLen(s) == IF s = <<>> THEN 0 ELSE s[1].n + TLen(Tail(s))

\* s.slice(0, k)
RECURSIVE Take(_, _)
Take(s, k) ==
  IF k <= 0 \/ s = <<>> THEN <<>>
  ELSE IF s[1].n <= k THEN <<s[1]>> \o Take(Tail(s), k - s[1].n)
       ELSE <<[c |-> s[1].c, n |-> k]>>

RECURSIVE TrimEnd(_)
TrimEnd(s) ==
  IF s = <<>> THEN <<>>
  ELSE IF IsWs(s[Len(s)].c) THEN TrimEnd(SubSeq(s, 1, Len(s) - 1)) ELSE s

RECURSIVE TrimStart(_)
TrimStart(s) ==
  IF s = <<>> THEN <<>>
  ELSE IF IsWs(s[1].c) THEN TrimStart(Tail(s)) ELSE s

Trim(s) == TrimEnd(TrimStart(s))

\* pattern p (a sequence of characters) occurs in s at token i
MatchAt(s, i, p) ==
  /\ i >= 1
  /\ i + Len(p) - 1 <= Len(s)
  /\ \A j \in 1..Len(p) : s[i + j - 1].c = p[j] /\ s[i + j - 1].n = 1

\* as MatchAt, letters compared without case (the regex flag i)
MatchAtI(s, i, p) ==
  /\ i >= 1
  /\ i + Len(p) - 1 <= Len(s)
  /\ \A j \in 1..Len(p) : LowerCh(s[i + j - 1].c) = LowerCh(p[j]) /\ s[i + j - 1].n = 1

TIncludesI(s, p) == \E i \in 1..Len(s) : MatchAtI(s, i, p)

\* String.prototype.toLowerCase on a text
TLower(s) == [i \in 1..Len(s) |-> [c |-> LowerCh(s[i].c), n |-> s[i].n]]

----------------------------------------------------------------------------
(* The DOM: elements, text nodes and comments                              *)

El(tag, attrs, kids) ==
  [t |-> "el", tag |-> tag, attrs |-> attrs, kids |-> kids, data |-> <<>>, uid |-> 0]
Tx(s) ==
  [t |-> "text", tag |-> "", attrs |-> <<>>, kids |-> <<>>, data |-> s, uid |-> 0]
Cm(n) ==
  [t |-> "comment", tag |-> "", attrs |-> <<>>, kids |-> <<>>, data |-> Fill(n), uid |-> 0]
At(name, val) == [name |-> name, val |-> val]

IsEl(nd) == nd.t = "el"
IsTag(nd, tags) == nd.t = "el" /\ nd.tag \in tags

HasAttr(e, name) == \E i \in 1..Len(e.attrs) : e.attrs[i].name = name

\* $(el).attr(name) || ''
Attr(e, name) ==
  IF HasAttr(e, name)
  THEN e.attrs[CHOOSE i \in 1..Len(e.attrs) : e.attrs[i].name = name].val
  ELSE ""

\* $(el).attr(name, val): the value replaced in place, or appended
SetAttr(e, name, val) ==
  IF HasAttr(e, name)
  THEN [e EXCEPT !.attrs = [i \in 1..Len(e.attrs) |->
          IF e.attrs[i].name = name THEN At(name, val) ELSE e.attrs[i]]]
  ELSE [e EXCEPT !.attrs = Append(e.attrs, At(name, val))]

\* all proper descendants, in document order
RECURSIVE DescKids(_)
DescKids(ks) ==
  IF ks = <<>> THEN <<>>
  ELSE <<ks[1]>> \o DescKids(ks[1].kids) \o DescKids(Tail(ks))

Desc(nd) == DescKids(nd.kids)

\* $scope.find(...): the proper descendants that satisfy a test, as a set
DescSet(nd) == {Desc(nd)[i] : i \in 1..Len(Desc(nd))}
Elements(nd) == {e \in DescSet(nd) : e.t = "el"}
\* the subtree, its root included
Subtree(nd) == {nd} \cup DescSet(nd)

\* $(el).text(): the data of every text node below, comments left out
RECURSIVE TextKids(_)
TextKids(ks) ==
  IF ks = <<>> THEN <<>>
  ELSE (CASE ks[1].t = "text" -> ks[1].data
          [] ks[1].t = "el" -> TextKids(ks[1].kids)
          [] OTHER -> <<>>) \o TextKids(Tail(ks))

TextOf(nd) == IF nd.t = "text" THEN nd.data ELSE Canon(TextKids(nd.kids))

RECURSIVE Size(_), SizeKids(_)
Size(nd) == 1 + SizeKids(nd.kids)
SizeKids(ks) == IF ks = <<>> THEN 0 ELSE Size(ks[1]) + SizeKids(Tail(ks))

\* every node of a loaded document gets its own uid, in document order;
\* a node the cleaner creates later keeps uid 0
RECURSIVE Number(_, _), NumberKids(_, _)
Number(nd, k) == [nd EXCEPT !.uid = k, !.kids = NumberKids(nd.kids, k + 1)]
NumberKids(ks, k) ==
  IF ks = <<>> THEN <<>>
  ELSE <<Number(ks[1], k)>> \o NumberKids(Tail(ks), k + Size(ks[1]))

----------------------------------------------------------------------------
(* The word lists                                                          *)

\* the class attribute split at white space
RECURSIVE ClassTokens(_, _)
ClassTokens(s, cur) ==
  IF s = "" THEN (IF cur = "" THEN {} ELSE {cur})
  ELSE IF CharAt(s, 1) \in {" ", "\t", "\n"}
       THEN (IF cur = "" THEN {} ELSE {cur}) \cup ClassTokens(SubSeq(s, 2, Len(s)), "")
       ELSE ClassTokens(SubSeq(s, 2, Len(s)), cur \o CharAt(s, 1))

NOISE_SELECTOR_TAGS == {"header", "nav", "footer", "aside", "form"}

NOISE_SELECTOR_CLASSES ==
  {"global-nav", "site-header", "site-footer", "breadcrumb", "breadcrumbs", "pager",
   "pagination", "sns", "share", "social", "skip-link", "cookie", "consent", "gdpr",
   "banner", "ads", "advertisement", "newsletter", "modal", "popup", "drawer",
   "offcanvas", "side", "sidenav", "search", "detailSearch", "detail-search",
   "global-search", "site-search", "quick-search"}

\* NOISE_SELECTOR_LIST.join(','): tag names, class names, and the attribute
\* selectors [class*="side-nav"], [id*="side-nav"], [id*="search"], [class*="search"]
NOISE_SELECTOR_LIST(e) ==
  \/ e.tag \in NOISE_SELECTOR_TAGS
  \/ e.tag = "form" /\ HasAttr(e, "role") /\ Attr(e, "role") = "search"
  \/ HasAttr(e, "class") /\ ClassTokens(Attr(e, "class"), "") \cap NOISE_SELECTOR_CLASSES # {}
  \/ HasAttr(e, "class") /\ Includes(Attr(e, "class"), "side-nav")
  \/ HasAttr(e, "id") /\ Includes(Attr(e, "id"), "side-nav")
  \/ HasAttr(e, "id") /\ Includes(Attr(e, "id"), "search")
  \/ HasAttr(e, "class") /\ Includes(Attr(e, "class"), "search")

NOISE_CLASS_SUBSTR ==
  {"global-nav", "site-header", "site-footer", "breadcrumb", "breadcrumbs", "pager",
   "pagination", "sns", "share", "social", "skip-link", "cookie", "consent", "gdpr",
   "banner", "ads", "advert", "newsletter", "modal", "popup", "drawer", "offcanvas",
   "side", "sidenav", "side-nav", "search", "detailsearch", "quick-search",
   "global-search", "selectbox", "select-box", "filter", "filters", "facet", "refine",
   "toolbar", "controls", "autocomplete", "suggest"}

FORCE_REMOVE_TAGS == {"script", "style", "noscript", "template", "iframe"}

\* U+6559 U+6388 (kyoju) and the other role words, as characters
ROLE_WORDS_JA ==
  { <<"U+6559", "U+6388">>,
    <<"U+51C6", "U+6559", "U+6388">>,
    <<"U+52A9", "U+6559">>,
    <<"U+8B1B", "U+5E2B">>,
    <<"U+7279", "U+4EFB", "U+6559", "U+6388">>,
    <<"U+5BA2", "U+54E1", "U+6559", "U+6388">>,
    <<"U+540D", "U+8A89", "U+6559", "U+6388">>,
    <<"U+975E", "U+5E38", "U+52E4", "U+8B1B", "U+5E2B">>,
    <<"U+62DB", "U+8058", "U+6559", "U+6388">>,
    <<"U+62DB", "U+3078", "U+3044", "U+6559", "U+54E1">> }

ROLE_WORDS_EN ==
  { Pat("Professor"), Pat("Associate Professor"), Pat("Assistant Professor"),
    Pat("Adjunct Professor"), Pat("Visiting Professor"), Pat("Professor Emeritus"),
    Pat("Lecturer"), Pat("Research Fellow"), Pat("Researcher"),
    Pat("Senior Researcher"), Pat("Postdoctoral") }

PERSON_LINK_HINTS ==
  {"/faculty-member/", "/faculty/", "/people/", "/person/", "/profile", "/profiles",
   "/researcher", "/researchers", "/staff/", "/r/lab/"}

\* the labels of the anchor-text test of hasDescendantAnchorWithProfile:
\* hp, homepage (katakana), kenkyusha-soran, soran, profile(s), people,
\* researcher(s), staff
PROFILE_LABELS ==
  { Pat("hp"),
    <<"U+30DB", "U+30FC", "U+30E0", "U+30DA", "U+30FC", "U+30B8">>,
    <<"U+7814", "U+7A76", "U+8005", "U+7DCF", "U+89A7">>,
    <<"U+7DCF", "U+89A7">>,
    Pat("profile"), Pat("profiles"), Pat("people"), Pat("researcher"),
    Pat("researchers"), Pat("staff") }

\* \p{sc=Han}: the ideographs that occur in the word lists, and U+5C71 U+7530
\* U+592A U+90CE (Yamada Taro) for names
HanChars ==
  {"U+6559", "U+6388", "U+51C6", "U+52A9", "U+8B1B", "U+5E2B", "U+7279", "U+4EFB",
   "U+5BA2", "U+54E1", "U+540D", "U+8A89", "U+975E", "U+5E38", "U+52E4", "U+62DB",
   "U+8058", "U+7814", "U+7A76", "U+8005", "U+7DCF", "U+89A7", "U+6C0F", "U+524D",
   "U+5C02", "U+9580", "U+5206", "U+91CE", "U+5C71", "U+7530", "U+592A", "U+90CE"}
IsHan(c) == c \in HanChars

\* [\p{sc=Katakana}U+30FB U+30FC]
KataChars == {"U+30DB", "U+30E0", "U+30DA", "U+30B8", "U+30BF", "U+30ED", "U+30FB", "U+30FC"}
IsKata(c) == c \in KataChars

----------------------------------------------------------------------------
(* The keep guards                                                         *)

\* /(^|\s)(hp|...|staff)(\s|$)/i on the trimmed, lower-cased anchor text
ProfileLabelTest(txt) ==
  \E i \in 1..Len(txt) : \E w \in PROFILE_LABELS :
    /\ MatchAtI(txt, i, w)
    /\ i = 1 \/ IsWs(txt[i - 1].c)
    /\ i + Len(w) - 1 = Len(txt) \/ IsWs(txt[i + Len(w)].c)

AnchorIsProfile(a) ==
  LET href == ToLower(Attr(a, "href"))
      txt  == TLower(Trim(TextOf(a)))
  IN \/ href # "" /\ \E h \in PERSON_LINK_HINTS : Includes(href, h)
     \/ ProfileLabelTest(txt)

hasDescendantAnchorWithProfile(nd) ==
  \E a \in Elements(nd) : a.tag = "a" /\ AnchorIsProfile(a)

\* /[\p{sc=Han}]{2,}(?:[\s U+3000]+)[\p{sc=Han}]{1,}/u
KanjiName(text) ==
  \E i \in 1..Len(text) : \E j \in 1..Len(text) :
    /\ i >= 2 /\ j >= i + 2
    /\ IsHan(text[i - 1].c) /\ IsHan(text[i].c)
    /\ \A m \in (i + 1)..(j - 1) : IsWs(text[m].c)
    /\ IsHan(text[j].c)

\* /[\p{sc=Katakana}U+30FB U+30FC]{2,}(...)?/u: the optional group adds nothing
KataName(text) ==
  \E i \in 1..(Len(text) - 1) : IsKata(text[i].c) /\ IsKata(text[i + 1].c)

RoleTest(text) == \E w \in ROLE_WORDS_JA \cup ROLE_WORDS_EN : TIncludesI(text, w)

hasNameOrRoleClues(nd) ==
  LET text == TextOf(nd) IN KanjiName(text) \/ KataName(text) \/ RoleTest(text)

Keep(nd) == hasDescendantAnchorWithProfile(nd) \/ hasNameOrRoleClues(nd)

----------------------------------------------------------------------------
(* Serialising ($.html) and parsing (load, replaceWith of a string)        *)
(* The serialised string is a sequence of lexemes: an opening tag with its *)
(* attributes, a closing tag, a comment, or a character of text.  w is the *)
(* number of characters the lexeme takes in the string.                    *)

VOID_TAGS ==
  {"area", "base", "br", "col", "embed", "frame", "hr", "img", "input", "link", "meta",
   "param", "source", "track", "wbr"}

RECURSIVE AttrsWidth(_)
AttrsWidth(as) ==
  IF as = <<>> THEN 0
  ELSE 1 + Len(as[1].name) + 2 + Len(as[1].val) + 1 + AttrsWidth(Tail(as))

LexOpen(tag, attrs) ==
  [k |-> "open", tag |-> tag, attrs |-> attrs, c |-> "", n |-> 1,
   w |-> 1 + Len(tag) + AttrsWidth(attrs) + 1]
LexClose(tag) ==
  [k |-> "close", tag |-> tag, attrs |-> <<>>, c |-> "", n |-> 1, w |-> 3 + Len(tag)]
LexCmt(n) ==
  [k |-> "cmt", tag |-> "", attrs |-> <<>>, c |-> "", n |-> 1, w |-> 4 + n + 3]
\* a character of text, escaped as the serialiser escapes it
LexCh(c, n) ==
  [k |-> "ch", tag |-> "", attrs |-> <<>>, c |-> c, n |-> n,
   w |-> CASE c = "&" -> 5 [] c \in {"<", ">"} -> 4 [] c = "U+00A0" -> 6 [] OTHER -> 1]

RECURSIVE Serialize(_), SerializeKids(_)
Serialize(nd) ==
  CASE nd.t = "text" -> [i \in 1..Len(nd.data) |-> LexCh(nd.data[i].c, nd.data[i].n)]
    [] nd.t = "comment" -> <<LexCmt(TLen(nd.data))>>
    [] OTHER ->
         IF nd.tag \in VOID_TAGS THEN <<LexOpen(nd.tag, nd.attrs)>>
         ELSE <<LexOpen(nd.tag, nd.attrs)>> \o SerializeKids(nd.kids) \o <<LexClose(nd.tag)>>
SerializeKids(ks) ==
  IF ks = <<>> THEN <<>> ELSE Serialize(ks[1]) \o SerializeKids(Tail(ks))

\* html.length
RECURSIVE OutLen(_)
OutLen(lex) == IF lex = <<>> THEN 0 ELSE lex[1].w * lex[1].n + OutLen(Tail(lex))

\* n times the string s
RECURSIVE Rep(_, _)
Rep(s, n) == IF n = 0 THEN "" ELSE s \o Rep(s, n - 1)

\* a tag name read from text: its characters up to white space, "/" or ">"
RECURSIVE TagName(_, _)
TagName(s, i) ==
  IF i > Len(s) \/ IsWs(s[i].c) \/ s[i].c \in {"/", ">"} THEN ""
  ELSE Rep(LowerCh(s[i].c), s[i].n) \o TagName(s, i + 1)

\* the place of the next ">" from token i on, 0 when there is none
RECURSIVE FindGt(_, _)
FindGt(s, i) ==
  IF i > Len(s) THEN 0 ELSE IF s[i].c = ">" THEN i ELSE FindGt(s, i + 1)

\* the tokenizer, on a text handed to the parser as markup: "<name>" opens an
\* element, "</name>" closes one, a tag that the text ends in is dropped, any
\* other character is text.  (The texts of the model hold tags without
\* attributes only; what follows the name up to ">" is skipped.)
RECURSIVE Tokenize(_, _)
Tokenize(s, i) ==
  IF i > Len(s) THEN <<>>
  ELSE IF s[i].c = "<" /\ i < Len(s) /\ IsLetter(s[i + 1].c)
       THEN IF FindGt(s, i) = 0 THEN <<>>
            ELSE <<LexOpen(TagName(s, i + 1), <<>>)>> \o Tokenize(s, FindGt(s, i) + 1)
  ELSE IF s[i].c = "<" /\ i + 1 < Len(s) /\ s[i + 1].c = "/" /\ IsLetter(s[i + 2].c)
       THEN IF FindGt(s, i) = 0 THEN <<>>
            ELSE <<LexClose(TagName(s, i + 2))>> \o Tokenize(s, FindGt(s, i) + 1)
  ELSE <<LexCh(s[i].c, s[i].n)>> \o Tokenize(s, i + 1)

\* the length of the run of characters that the lexemes start with
TextRun(lex) ==
  CHOOSE j \in 1..Len(lex) :
    /\ \A i \in 1..j : lex[i].k = "ch"
    /\ j = Len(lex) \/ lex[j + 1].k # "ch"

\* characters put in front of the nodes parsed after them: they join the
\* text node that follows, if one does
PushText(data, kids) ==
  IF kids # <<>> /\ kids[1].t = "text"
  THEN <<Tx(Canon(data \o kids[1].data))>> \o Tail(kids)
  ELSE <<Tx(Canon(data))>> \o kids

InStack(tag, stack) == \E i \in 1..Len(stack) : stack[i] = tag

\* tree construction: the children up to the closing tag of the innermost
\* open element (stack[1]); rest is what is left of the input.  A closing tag
\* of an outer open element closes the inner ones; one of no open element is
\* dropped.
RECURSIVE ParseKids(_, _)
ParseKids(lex, stack) ==
  IF lex = <<>> THEN [kids |-> <<>>, rest |-> <<>>]
  ELSE LET h == lex[1] IN
    CASE h.k = "close" ->
           IF stack # <<>> /\ h.tag = stack[1] THEN [kids |-> <<>>, rest |-> Tail(lex)]
           ELSE IF InStack(h.tag, stack) THEN [kids |-> <<>>, rest |-> lex]
           ELSE ParseKids(Tail(lex), stack)
      [] h.k = "open" ->
           IF h.tag \in VOID_TAGS
           THEN LET after == ParseKids(Tail(lex), stack)
                IN [kids |-> <<El(h.tag, h.attrs, <<>>)>> \o after.kids, rest |-> after.rest]
           ELSE LET inner == ParseKids(Tail(lex), <<h.tag>> \o stack)
                    after == ParseKids(inner.rest, stack)
                IN [kids |-> <<El(h.tag, h.attrs, inner.kids)>> \o after.kids,
                    rest |-> after.rest]
      [] h.k = "cmt" ->
           LET after == ParseKids(Tail(lex), stack)
           IN [kids |-> <<Cm(h.w - 7)>> \o after.kids, rest |-> after.rest]
      [] OTHER ->
           LET run == TextRun(lex)
               after == ParseKids(SubSeq(lex, run + 1, Len(lex)), stack)
           IN [kids |-> PushText([i \in 1..run |-> [c |-> lex[i].c, n |-> lex[i].n]],
                                 after.kids),
               rest |-> after.rest]

\* the nodes a string of markup parses to
ParseFragment(lex) == ParseKids(lex, <<>>).kids

\* load(html): the document of a string; html, head and body are made when
\* the string does not hold them
Document(bodyEl) ==
  Number(El("html", <<>>, <<El("head", <<>>, <<>>), bodyEl>>), 1)

\* a frameset tag that the parser still takes: nothing but the tags of html,
\* head and main came before it (text, or a body tag, would make it ignored)
SeesFrameset(lex) ==
  \E i \in 1..Len(lex) :
    /\ lex[i].k = "open" /\ lex[i].tag = "frameset"
    /\ \A j \in 1..(i - 1) : lex[j].k \in {"open", "close"} /\ lex[j].tag \in {"html", "head", "main"}

\* the document of a frameset page: the frameset takes the place of the body,
\* and what came before it is dropped
FramesetDocument(lex) ==
  LET i == CHOOSE k \in 1..Len(lex) :
             /\ lex[k].k = "open" /\ lex[k].tag = "frameset"
             /\ \A j \in 1..(k - 1) : ~(lex[j].k = "open" /\ lex[j].tag = "frameset")
      inner == ParseKids(SubSeq(lex, i + 1, Len(lex)), <<"frameset">>)
  IN Number(El("html", <<>>,
              <<El("head", <<>>, <<>>), El("frameset", lex[i].attrs, inner.kids)>>), 1)

\* the tags of the parts of a table: where no table is open, the parser of a
\* document is "in body" and ignores their start tags and their end tags
TABLE_PART_TAGS ==
  {"caption", "col", "colgroup", "tbody", "td", "tfoot", "th", "thead", "tr"}

\* the lexemes the tree construction of a document acts on; depth is the
\* number of table elements open
RECURSIVE InBody(_, _)
InBody(lex, depth) ==
  IF lex = <<>> THEN <<>>
  ELSE LET h == lex[1] IN
    IF h.k \in {"open", "close"} /\ h.tag \in TABLE_PART_TAGS /\ depth = 0
    THEN InBody(Tail(lex), depth)
    ELSE <<h>> \o InBody(Tail(lex),
                         IF h.tag = "table" /\ h.k = "open" THEN depth + 1
                         ELSE IF h.tag = "table" /\ h.k = "close" /\ depth > 0 THEN depth - 1
                         ELSE depth)

load(lex) ==
  LET nodes == ParseFragment(InBody(lex, 0))
  IN IF SeesFrameset(lex) THEN FramesetDocument(lex)
     ELSE IF Len(nodes) = 1 /\ IsTag(nodes[1], {"body"}) THEN Document(nodes[1])
     ELSE Document(El("body", <<>>, nodes))

----------------------------------------------------------------------------
(* Stage: selectScope                                                      *)

FirstOrNone(seq, tag) ==
  IF \E i \in 1..Len(seq) : IsTag(seq[i], {tag})
  THEN <<seq[CHOOSE i \in 1..Len(seq) :
               /\ IsTag(seq[i], {tag})
               /\ \A j \in 1..(i - 1) : ~IsTag(seq[j], {tag})]>>
  ELSE <<>>

\* selectScope with the body looked for before any main
selectScopeBodyFirst(d) ==
  LET all == <<d>> \o Desc(d)
  IN IF FirstOrNone(all, "body") # <<>> THEN FirstOrNone(all, "body")[1]
     ELSE IF FirstOrNone(all, "main") # <<>> THEN FirstOrNone(all, "main")[1]
     ELSE El("main", <<>>, <<d>>)

\* $('main').first(), else $('body').first(), else a new main that adopts the
\* children of the root (d is the html element, the one child of the root)
selectScope(d) ==
  LET all == <<d>> \o Desc(d)
  IN IF FirstOrNone(all, "main") # <<>> THEN FirstOrNone(all, "main")[1]
     ELSE IF FirstOrNone(all, "body") # <<>> THEN FirstOrNone(all, "body")[1]
     ELSE El("main", <<>>, <<d>>)

----------------------------------------------------------------------------
(* Stage: removeOrUnwrapNoise                                              *)

\* the test of each of the three loops
NoiseMatch(e, loop) ==
  CASE loop = "selector" -> NOISE_SELECTOR_LIST(e)
    [] loop = "class" ->
         /\ HasAttr(e, "class")
         /\ ToLower(Attr(e, "class")) # ""
         /\ \E key \in NOISE_CLASS_SUBSTR : Includes(ToLower(Attr(e, "class")), key)
    [] OTHER ->
         /\ HasAttr(e, "id")
         /\ ToLower(Attr(e, "id")) # ""
         /\ \E key \in NOISE_CLASS_SUBSTR : Includes(ToLower(Attr(e, "id")), key)

\* one loop over the elements found, in document order: a match is unwrapped
\* (its children take its place, and are visited next) when a guard holds,
\* and removed with its subtree when none does
RECURSIVE NoiseLoop(_, _)
NoiseLoop(ks, loop) ==
  IF ks = <<>> THEN <<>>
  ELSE LET k == ks[1]
           rest == NoiseLoop(Tail(ks), loop)
       IN IF k.t # "el" THEN <<k>> \o rest
          ELSE IF NoiseMatch(k, loop)
               THEN IF Keep(k) THEN NoiseLoop(k.kids, loop) \o rest ELSE rest
               ELSE <<[k EXCEPT !.kids = NoiseLoop(k.kids, loop)]>> \o rest

removeOrUnwrapNoise(sc) ==
  LET a == NoiseLoop(sc.kids, "selector")
      b == NoiseLoop(a, "class")
  IN [sc EXCEPT !.kids = NoiseLoop(b, "id")]

\* The same stage, one callback at a time.
\* what each of the three find() calls selects
ListTest(e, loop) ==
  CASE loop = "selector" -> NOISE_SELECTOR_LIST(e)
    [] loop = "class" -> HasAttr(e, "class")
    [] OTHER -> HasAttr(e, "id")

\* $scope.find(...): the uids of the elements selected, in document order
Candidates(sc, loop) ==
  LET found == SelectSeq(Desc(sc), LAMBDA n : n.t = "el" /\ ListTest(n, loop))
  IN [i \in 1..Len(found) |-> found[i].uid]

\* the node of the tree with the uid, <<>> when it is no longer in the tree
Find(sc, u) ==
  LET s == {n \in DescSet(sc) : n.uid = u}
  IN IF s = {} THEN <<>> ELSE <<CHOOSE n \in s : TRUE>>

\* the node with the uid taken out of the tree: $el.remove(), or
\* unwrapKeepChildren, which puts its children in its place
RECURSIVE Splice(_, _, _)
Splice(ks, u, unwrap) ==
  IF ks = <<>> THEN <<>>
  ELSE IF ks[1].uid = u THEN (IF unwrap THEN ks[1].kids ELSE <<>>) \o Tail(ks)
       ELSE <<[ks[1] EXCEPT !.kids = Splice(ks[1].kids, u, unwrap)]>> \o Splice(Tail(ks), u, unwrap)

\* the callback with the guard turned round
DecisionInverted(sc, u, loop) ==
  LET f == Find(sc, u)
  IN IF f = <<>> \/ ~NoiseMatch(f[1], loop) THEN sc
     ELSE [sc EXCEPT !.kids = Splice(sc.kids, u, ~Keep(f[1]))]

\* the callback of a loop on the element u of its list: an element inside a
\* subtree that was removed is no longer in the tree, and what is done to it
\* changes nothing of the tree
Decision(sc, u, loop) ==
  LET f == Find(sc, u)
  IN IF f = <<>> \/ ~NoiseMatch(f[1], loop) THEN sc
     ELSE [sc EXCEPT !.kids = Splice(sc.kids, u, Keep(f[1]))]

----------------------------------------------------------------------------
(* Stage: removeForcedTags                                                 *)

RECURSIVE RemoveTags(_, _)
RemoveTags(ks, tags) ==
  IF ks = <<>> THEN <<>>
  ELSE LET k == ks[1]
           rest == RemoveTags(Tail(ks), tags)
       IN IF IsTag(k, tags) THEN rest
          ELSE <<[k EXCEPT !.kids = RemoveTags(k.kids, tags)]>> \o rest

removeForcedTags(sc) == [sc EXCEPT !.kids = RemoveTags(sc.kids, FORCE_REMOVE_TAGS)]

----------------------------------------------------------------------------
(* Stage: absolutizeLinksAndImages                                         *)

\* String.prototype.trim on a string
RECURSIVE StrTrimStart(_)
StrTrimStart(s) ==
  IF s # "" /\ IsWs(CharAt(s, 1)) THEN StrTrimStart(SubSeq(s, 2, Len(s))) ELSE s
RECURSIVE StrTrimEnd(_)
StrTrimEnd(s) ==
  IF s # "" /\ IsWs(CharAt(s, Len(s))) THEN StrTrimEnd(SubSeq(s, 1, Len(s) - 1)) ELSE s
StrTrim(s) == StrTrimEnd(StrTrimStart(s))

\* the part of s before the first character of seps (all of s when none)
RECURSIVE Before(_, _)
Before(s, seps) ==
  IF s = "" \/ CharAt(s, 1) \in seps THEN ""
  ELSE CharAt(s, 1) \o Before(SubSeq(s, 2, Len(s)), seps)

isFragmentOnly(u) == StartsWith(u, "#")
isSpecialScheme(u) ==
  \E p \in {"mailto:", "tel:", "javascript:"} :
    Len(u) >= Len(p) /\ ToLower(SubSeq(u, 1, Len(p))) = p

HttpBase == "https://example.com/base/dir/"
BlankBase == "about:blank"

\* new URL(url, base).toString() of the URL standard, on the references of
\* the model (one path segment, no query) and its two bases: ok is FALSE
\* where the constructor throws.  An absolute URL is normalised (scheme and
\* host in lower case, the empty path "/"); against about:blank, whose path
\* is opaque, only an absolute URL or a fragment resolves.
NewURL(url, b) ==
  LET u == StrTrim(url)
      yes(h) == [ok |-> TRUE, href |-> h]
      no == [ok |-> FALSE, href |-> ""]
      rest(k) == SubSeq(u, k, Len(u))
  IN CASE u = "http://[bad" -> no
       [] u = "HTTPS://Other.org" -> yes("https://other.org/")
       [] StartsWith(u, "https://") -> yes(u)
       [] StartsWith(u, "about:") \/ StartsWith(u, "mailto:") -> yes(u)
       [] b # HttpBase -> IF StartsWith(u, "#") THEN yes(b \o u) ELSE no
       [] u = "" -> yes(HttpBase)
       [] StartsWith(u, "#") -> yes(HttpBase \o u)
       [] StartsWith(u, "/") -> yes("https://example.com" \o u)
       [] StartsWith(u, "./") -> yes(HttpBase \o rest(3))
       [] StartsWith(u, "../") -> yes("https://example.com/base/" \o rest(4))
       [] OTHER -> yes(HttpBase \o u)

\* absolutizeUrl without its try/catch: a failed resolution gives no string
absolutizeUrlNoCatch(url, b) ==
  IF url = "" THEN url
  ELSE IF isFragmentOnly(url) \/ isSpecialScheme(url) THEN url
  ELSE NewURL(url, b).href

absolutizeUrl(url, b) ==
  IF url = "" THEN url
  ELSE IF isFragmentOnly(url) \/ isSpecialScheme(url) THEN url
  ELSE IF NewURL(url, b).ok THEN NewURL(url, b).href ELSE url

\* srcset.split(',')[0].trim(), then .split(/\s+/)[0]; "" stands for undefined
takeFirstFromSrcset(srcset) ==
  IF srcset = "" THEN ""
  ELSE LET fst == StrTrim(Before(srcset, {","}))
       IN IF fst = "" THEN "" ELSE Before(fst, WsChars)

\* a || b || c ... over strings: the first that is not empty
RECURSIVE FirstTruthy(_)
FirstTruthy(seq) ==
  IF seq = <<>> THEN "" ELSE IF seq[1] # "" THEN seq[1] ELSE FirstTruthy(Tail(seq))

AbsAnchor(a, baseUrl) ==
  IF HasAttr(a, "href") /\ Attr(a, "href") # ""
  THEN SetAttr(a, "href", absolutizeUrl(Attr(a, "href"), baseUrl))
  ELSE a

AbsImg(img, baseUrl) ==
  LET src0 == Attr(img, "src")
      cand == FirstTruthy(<<Attr(img, "data-src"), Attr(img, "data-original"),
                            Attr(img, "data-lazy"),
                            takeFirstFromSrcset(Attr(img, "data-srcset")),
                            takeFirstFromSrcset(Attr(img, "srcset"))>>)
      blank == src0 = "" \/ StrTrim(src0) = ""
      img1 == IF blank /\ cand # "" THEN SetAttr(img, "src", cand) ELSE img
      src == IF blank /\ cand # "" THEN cand ELSE src0
  IN IF src # "" THEN SetAttr(img1, "src", absolutizeUrl(src, baseUrl)) ELSE img1

RECURSIVE AbsKids(_, _)
AbsKids(ks, baseUrl) ==
  IF ks = <<>> THEN <<>>
  ELSE LET k == ks[1]
           k1 == IF IsTag(k, {"a"}) THEN AbsAnchor(k, baseUrl)
                 ELSE IF IsTag(k, {"img"}) THEN AbsImg(k, baseUrl) ELSE k
       IN <<[k1 EXCEPT !.kids = AbsKids(k.kids, baseUrl)]>> \o AbsKids(Tail(ks), baseUrl)

absolutizeLinksAndImages(sc, baseUrl) == [sc EXCEPT !.kids = AbsKids(sc.kids, baseUrl)]

----------------------------------------------------------------------------
(* Stage: simplifyFormControls                                             *)

OptionSpamCount == 20
OptionSpamTextLen == 200

\* $el.find('option'), in document order
Options(e) == SelectSeq(Desc(e), LAMBDA o : IsTag(o, {"option"}))

RECURSIVE SumTrimmedLen(_)
SumTrimmedLen(os) ==
  IF os = <<>> THEN 0 ELSE TLen(Trim(TextOf(os[1]))) + SumTrimmedLen(Tail(os))

IsOptionSpam(e) ==
  \/ Len(Options(e)) >= OptionSpamCount
  \/ SumTrimmedLen(Options(e)) >= OptionSpamTextLen

\* $(o).replaceWith(txt) for each option of the control: txt is handed to
\* replaceWith as a string, which cheerio parses as markup; an option with
\* no text is removed
RECURSIVE ReplaceOptions(_)
ReplaceOptions(ks) ==
  IF ks = <<>> THEN <<>>
  ELSE LET k == ks[1]
           rest == ReplaceOptions(Tail(ks))
       IN IF IsTag(k, {"option"})
          THEN (IF Trim(TextOf(k)) # <<>>
                THEN ParseFragment(Tokenize(Trim(TextOf(k)), 1)) ELSE <<>>) \o rest
          ELSE <<[k EXCEPT !.kids = ReplaceOptions(k.kids)]>> \o rest

\* the loop over $scope.find('select, datalist'): the list is made before
\* the loop, so an element that replaceWith creates (uid 0) is not in it
RECURSIVE SelectLoop(_)
SelectLoop(ks) ==
  IF ks = <<>> THEN <<>>
  ELSE LET k == ks[1]
           rest == SelectLoop(Tail(ks))
       IN IF IsTag(k, {"select", "datalist"}) /\ k.uid # 0
          THEN IF IsOptionSpam(k) THEN rest
               ELSE SelectLoop(ReplaceOptions(k.kids)) \o rest
          ELSE IF k.uid = 0 THEN <<k>> \o rest
          ELSE <<[k EXCEPT !.kids = SelectLoop(k.kids)]>> \o rest

\* ($el.text() || $el.attr('value') || '').trim(): the value attribute is
\* read only when the text is the empty string
ChromeText(e) ==
  IF TextOf(e) # <<>> THEN Trim(TextOf(e)) ELSE T(StrTrim(Attr(e, "value")))

RECURSIVE ChromeLoop(_)
ChromeLoop(ks) ==
  IF ks = <<>> THEN <<>>
  ELSE LET k == ks[1]
           rest == ChromeLoop(Tail(ks))
       IN IF IsTag(k, {"input", "textarea", "button", "label"}) /\ ChromeText(k) = <<>>
          THEN rest
          ELSE <<[k EXCEPT !.kids = ChromeLoop(k.kids)]>> \o rest

simplifyFormControls(sc) == [sc EXCEPT !.kids = ChromeLoop(SelectLoop(sc.kids))]

----------------------------------------------------------------------------
(* Stage: pruneEventAndStyle (cleanAttributes)                             *)

DropsAttr(name) == ToLower(name) = "style" \/ StartsWith(ToLower(name), "on")

cleanAttrsOf(e) ==
  [e EXCEPT !.attrs = SelectSeq(e.attrs, LAMBDA a : ~DropsAttr(a.name))]

\* $root.find('*'): every element below the root, the root itself not
RECURSIVE CleanAttrKids(_)
CleanAttrKids(ks) ==
  IF ks = <<>> THEN <<>>
  ELSE LET k == ks[1]
           k1 == IF k.t = "el" THEN cleanAttrsOf(k) ELSE k
       IN <<[k1 EXCEPT !.kids = CleanAttrKids(k.kids)]>> \o CleanAttrKids(Tail(ks))

cleanAttributes(root) == [root EXCEPT !.kids = CleanAttrKids(root.kids)]

pruneEventAndStyle(sc) == cleanAttributes(sc)

----------------------------------------------------------------------------
(* Stage: removeEmptyBlocks                                                *)

REMOVABLE_TAGS == {"div", "section", "article", "p", "span", "li"}
USEFUL_TAGS ==
  {"a", "img", "table", "thead", "tbody", "tr", "td", "th", "dl", "dt", "dd", "ul",
   "ol", "h1", "h2", "h3", "h4", "h5", "h6"}

hasUsefulDesc(e) == \E d \in Elements(e) : d.tag \in USEFUL_TAGS

\* data.replace(/U+00A0|&nbsp;/g, ' ')
RECURSIVE ReplaceNbsp(_, _)
ReplaceNbsp(s, i) ==
  IF i > Len(s) THEN <<>>
  ELSE IF s[i].c = "U+00A0" THEN <<Ch(" ")>> \o ReplaceNbsp(s, i + 1)
  ELSE IF MatchAt(s, i, Pat("&nbsp;")) THEN <<Ch(" ")>> \o ReplaceNbsp(s, i + 6)
  ELSE <<s[i]>> \o ReplaceNbsp(s, i + 1)

\* the last token of the run of characters of set that starts at token i
RECURSIVE RunEnd(_, _, _)
RunEnd(s, i, set) ==
  IF i < Len(s) /\ s[i + 1].c \in set THEN RunEnd(s, i + 1, set) ELSE i

\* data.replace(/[set]{2,}/g, rep)
RECURSIVE CollapseRuns(_, _, _, _)
CollapseRuns(s, i, set, rep) ==
  IF i > Len(s) THEN <<>>
  ELSE IF s[i].c \in set /\ RunEnd(s, i, set) > i
       THEN <<Ch(rep)>> \o CollapseRuns(s, RunEnd(s, i, set) + 1, set, rep)
       ELSE <<s[i]>> \o CollapseRuns(s, i + 1, set, rep)

\* text().replace(/U+00A0|&nbsp;/g, ' ').replace(/[\t ]+/g, ' ').trim() is empty
IsEmptyBlock(e) == ~hasUsefulDesc(e) /\ Trim(ReplaceNbsp(TextOf(e), 1)) = <<>>

RECURSIVE EmptyLoop(_)
EmptyLoop(ks) ==
  IF ks = <<>> THEN <<>>
  ELSE LET k == ks[1]
           rest == EmptyLoop(Tail(ks))
       IN IF IsTag(k, REMOVABLE_TAGS) /\ IsEmptyBlock(k) THEN rest
          ELSE <<[k EXCEPT !.kids = EmptyLoop(k.kids)]>> \o rest

removeEmptyBlocks(sc) == [sc EXCEPT !.kids = EmptyLoop(sc.kids)]

----------------------------------------------------------------------------
(* Stage: finalizeFormatting                                               *)

\* $root.find('br').each: a br whose previous sibling is, at that moment, a
\* br element is removed
RECURSIVE BrLoop(_, _)
BrLoop(ks, acc) ==
  IF ks = <<>> THEN acc
  ELSE LET k == ks[1]
       IN IF IsTag(k, {"br"}) /\ acc # <<>> /\ IsTag(acc[Len(acc)], {"br"})
          THEN BrLoop(Tail(ks), acc)
          ELSE BrLoop(Tail(ks), Append(acc, [k EXCEPT !.kids = BrLoop(k.kids, <<>>)]))

compressBrRuns(root) == [root EXCEPT !.kids = BrLoop(root.kids, <<>>)]

\* U+6C0F U+540D (shimei), U+540D U+524D (namae), U+5C02 U+9580 (senmon),
\* U+7814 U+7A76 U+5206 U+91CE (kenkyu bun'ya), and the English labels
LABEL_WORDS ==
  << <<"U+6C0F", "U+540D">>, <<"U+540D", "U+524D">>, <<"U+5C02", "U+9580">>,
     <<"U+7814", "U+7A76", "U+5206", "U+91CE">>,
     Pat("Research field"), Pat("Field(s)"), Pat("Fields") >>

\* ':' and the full-width colon U+FF1A
Colons == {":", "U+FF1A"}

TextOfPat(p) == [i \in 1..Len(p) |-> Ch(p[i])]

\* data.replace(/(label)([colon])(?!\n)/g, '$1$2\n')
RECURSIVE BreakAfterColon(_, _, _)
BreakAfterColon(s, i, lab) ==
  IF i > Len(s) THEN <<>>
  ELSE IF /\ MatchAt(s, i, lab)
          /\ i + Len(lab) <= Len(s)
          /\ s[i + Len(lab)].c \in Colons
          /\ ~(i + Len(lab) + 1 <= Len(s) /\ s[i + Len(lab) + 1].c = "\n")
       THEN TextOfPat(lab) \o <<s[i + Len(lab)], Ch("\n")>>
              \o BreakAfterColon(s, i + Len(lab) + 1, lab)
       ELSE <<s[i]>> \o BreakAfterColon(s, i + 1, lab)

\* data.replace(/(label)(?![\n colon])/g, '$1\n')
RECURSIVE BreakAfterLabel(_, _, _)
BreakAfterLabel(s, i, lab) ==
  IF i > Len(s) THEN <<>>
  ELSE IF /\ MatchAt(s, i, lab)
          /\ ~(i + Len(lab) <= Len(s) /\ s[i + Len(lab)].c \in Colons \cup {"\n"})
       THEN TextOfPat(lab) \o <<Ch("\n")>> \o BreakAfterLabel(s, i + Len(lab), lab)
       ELSE <<s[i]>> \o BreakAfterLabel(s, i + 1, lab)

\* the loop over LABEL_WORDS, from label k on
RECURSIVE LabelLoop(_, _)
LabelLoop(s, k) ==
  IF k > Len(LABEL_WORDS) THEN s
  ELSE LabelLoop(BreakAfterLabel(BreakAfterColon(s, 1, LABEL_WORDS[k]), 1, LABEL_WORDS[k]),
                 k + 1)

\* the new data of one text node
NormalizeData(data) ==
  LET a == ReplaceNbsp(data, 1)
      b == CollapseRuns(a, 1, {"\t", " "}, " ")
      c == CollapseRuns(b, 1, {"\n"}, "\n")
  IN LabelLoop(c, 1)

RECURSIVE NormalizeKids(_)
NormalizeKids(ks) ==
  IF ks = <<>> THEN <<>>
  ELSE LET k == ks[1]
       IN (IF k.t = "text" THEN <<[k EXCEPT !.data = NormalizeData(k.data)]>>
           ELSE <<[k EXCEPT !.kids = NormalizeKids(k.kids)]>>) \o NormalizeKids(Tail(ks))

normalizeTextWhitespace(root) == [root EXCEPT !.kids = NormalizeKids(root.kids)]

RemoveAt(seq, i) == SubSeq(seq, 1, i - 1) \o SubSeq(seq, i + 1, Len(seq))

\* walk: "for (const child of any.children) walk(child)" steps through the
\* array by index while $(child).remove() takes the comment out of that same
\* array, so the node that follows a removed comment is stepped over
RECURSIVE WalkComments(_, _)
WalkComments(ks, i) ==
  IF i > Len(ks) THEN ks
  ELSE IF ks[i].t = "comment" THEN WalkComments(RemoveAt(ks, i), i + 1)
  ELSE WalkComments([ks EXCEPT ![i] = [ks[i] EXCEPT !.kids = WalkComments(ks[i].kids, 1)]],
                    i + 1)

removeCommentsDeep(root) == [root EXCEPT !.kids = WalkComments(root.kids, 1)]

BLOCK_TAGS ==
  {"section", "article", "ul", "ol", "li", "table", "thead", "tbody", "tr", "td", "th",
   "div", "p", "h1", "h2", "h3", "h4", "h5", "h6", "dl", "dt", "dd", "hr"}

\* the lookahead (?=<(?:blocks)(?:\s|>)) of a template literal, in which \s
\* is the letter s: the opening tag of a block element without attributes,
\* or a tag whose name is a block name followed by the letter s
OpensBlock(lx) ==
  /\ lx.k = "open"
  /\ \/ lx.tag \in BLOCK_TAGS /\ lx.attrs = <<>>
     \/ \E b \in BLOCK_TAGS : StartsWith(lx.tag, b \o "s")

\* html.replace(closeOpen, m => m.replace(/>\s*$/, '>\n')): a line break
\* after the closing tag of a block that an opening block tag follows at once
RECURSIVE ensureNewlinesBetweenBlocks(_)
ensureNewlinesBetweenBlocks(lex) ==
  IF Len(lex) < 2 THEN lex
  ELSE IF lex[1].k = "close" /\ lex[1].tag \in BLOCK_TAGS /\ OpensBlock(lex[2])
       THEN <<lex[1], LexCh("\n", 1)>> \o ensureNewlinesBetweenBlocks(Tail(lex))
       ELSE <<lex[1]>> \o ensureNewlinesBetweenBlocks(Tail(lex))

\* the tree that finalizeFormatting leaves, and the string it returns
FormatTree(sc) == removeCommentsDeep(normalizeTextWhitespace(compressBrRuns(sc)))
finalizeFormatting(sc) == ensureNewlinesBetweenBlocks(Serialize(FormatTree(sc)))

----------------------------------------------------------------------------
(* Stage: clipToLimit                                                      *)

SizeLimit == 30000
ClipMinCut == 16
ClipExtraIterations == 5

\* the data of the text nodes of the subtree, in document order
RECURSIVE TextsKids(_)
TextsKids(ks) ==
  IF ks = <<>> THEN <<>>
  ELSE (IF ks[1].t = "text" THEN <<ks[1].data>> ELSE TextsKids(ks[1].kids))
         \o TextsKids(Tail(ks))

\* the subtree with the data of its text nodes replaced by ds, in order
RECURSIVE PutTexts(_, _)
PutTexts(ks, ds) ==
  IF ks = <<>> THEN <<>>
  ELSE LET k == ks[1]
           used == IF k.t = "text" THEN 1 ELSE Len(TextsKids(k.kids))
           k1 == IF k.t = "text" THEN [k EXCEPT !.data = ds[1]]
                 ELSE [k EXCEPT !.kids = PutTexts(k.kids, SubSeq(ds, 1, used))]
       IN <<k1>> \o PutTexts(Tail(ks), SubSeq(ds, used + 1, Len(ds)))

\* the inner for loop: from the last text node backward while need > 0
RECURSIVE ClipBackward(_, _, _)
ClipBackward(ds, i, need) ==
  IF i < 1 \/ need <= 0 THEN ds
  ELSE IF ds[i] = <<>> THEN ClipBackward(ds, i - 1, need)
  ELSE LET len == TLen(ds[i])
           cut == Min(len, Max(ClipMinCut, (need + 1) \div 2))
       IN ClipBackward([ds EXCEPT ![i] = TrimEnd(Take(ds[i], len - cut))], i - 1, need - cut)

\* the while loop; nTexts is texts.length
RECURSIVE ClipLoop(_, _, _, _, _)
ClipLoop(root, ds, nTexts, iterations, limit) ==
  LET cur == [root EXCEPT !.kids = PutTexts(root.kids, ds)]
      len == OutLen(Serialize(cur))
  IN IF len > limit /\ iterations < nTexts + ClipExtraIterations
     THEN ClipLoop(root, ClipBackward(ds, Len(ds), len - limit), nTexts,
                   iterations + 1, limit)
     ELSE cur

clipToLimit(root, limit) ==
  IF OutLen(Serialize(root)) <= limit THEN root
  ELSE ClipLoop(root, TextsKids(root.kids), Len(TextsKids(root.kids)), 0, limit)

----------------------------------------------------------------------------
(* cleanFacultyHtml, one stage at a time                                   *)
(*   pc: the stage reached; pass: 1 for cleanFacultyHtml(h, u), 2 for the  *)
(*   call cleanFacultyHtml(once, u) on the string the first call returned; *)
(*   base: sourceUrl; doc: the document load(html) made; orig: the scope   *)
(*   as selected; scope: the scope subtree as the stages leave it; out:    *)
(*   the string of the current call; first: the string the first call      *)
(*   returned; todo: the elements (uids) that the running each() loop of   *)
(*   removeOrUnwrapNoise has still to visit, when the loop is followed one *)
(*   callback at a time.                                                   *)

ScopeStep ==
  /\ pc = "loaded"
  /\ scope' = selectScope(doc)
  /\ orig' = selectScope(doc)
  /\ pc' = "scoped"
  /\ UNCHANGED <<pass, base, doc, out, first, todo, grab, sheet, push>>

NoiseStep ==
  /\ pc = "scoped"
  /\ scope' = removeOrUnwrapNoise(scope)
  /\ pc' = "noise"
  /\ UNCHANGED <<pass, base, doc, out, first, orig, todo, grab, sheet, push>>

ForcedStep ==
  /\ pc = "noise"
  /\ scope' = removeForcedTags(scope)
  /\ pc' = "forced"
  /\ UNCHANGED <<pass, base, doc, out, first, orig, todo, grab, sheet, push>>

UrlStep ==
  /\ pc = "forced"
  /\ scope' = absolutizeLinksAndImages(scope, base)
  /\ pc' = "urls"
  /\ UNCHANGED <<pass, base, doc, out, first, orig, todo, grab, sheet, push>>

FormStep ==
  /\ pc = "urls"
  /\ scope' = simplifyFormControls(scope)
  /\ pc' = "forms"
  /\ UNCHANGED <<pass, base, doc, out, first, orig, todo, grab, sheet, push>>

AttrStep ==
  /\ pc = "forms"
  /\ scope' = pruneEventAndStyle(scope)
  /\ pc' = "attrs"
  /\ UNCHANGED <<pass, base, doc, out, first, orig, todo, grab, sheet, push>>

EmptyStep ==
  /\ pc = "attrs"
  /\ scope' = removeEmptyBlocks(scope)
  /\ pc' = "pruned"
  /\ UNCHANGED <<pass, base, doc, out, first, orig, todo, grab, sheet, push>>

FormatStep ==
  /\ pc = "pruned"
  /\ scope' = FormatTree(scope)
  /\ out' = finalizeFormatting(scope)
  /\ pc' = "formatted"
  /\ UNCHANGED <<pass, base, doc, first, orig, todo, grab, sheet, push>>

\* if (out.length > 30000) { load(out); selectScope; clipToLimit; ... }; return out
BoundStep ==
  /\ pc = "formatted"
  /\ LET clipped == clipToLimit(selectScope(load(out)), SizeLimit)
     IN IF OutLen(out) > SizeLimit
        THEN /\ scope' = clipped
             /\ out' = ensureNewlinesBetweenBlocks(Serialize(clipped))
        ELSE UNCHANGED <<scope, out>>
  /\ pc' = "done"
  /\ UNCHANGED <<pass, base, doc, first, orig, todo, grab, sheet, push>>

\* the caller cleans the string it got once more, with the same sourceUrl
RecleanStep ==
  /\ pc = "done"
  /\ pass = 1
  /\ pass' = 2
  /\ first' = out
  /\ doc' = load(out)
  /\ scope' = load(out)
  /\ orig' = load(out)
  /\ out' = <<>>
  /\ pc' = "loaded"
  /\ UNCHANGED <<base, todo, grab, sheet, push>>

\* removeOrUnwrapNoise one callback at a time: pc is the loop that runs
NoisePasses == {"selector", "class", "id"}

BeginNoiseStep ==
  /\ pc = "scoped"
  /\ pc' = "selector"
  /\ todo' = Candidates(scope, "selector")
  /\ UNCHANGED <<pass, base, doc, scope, out, first, orig, grab, sheet, push>>

DecideStep ==
  /\ pc \in NoisePasses
  /\ todo # <<>>
  /\ scope' = Decision(scope, Head(todo), pc)
  /\ todo' = Tail(todo)
  /\ UNCHANGED <<pc, pass, base, doc, out, first, orig, grab, sheet, push>>

NextPassStep ==
  /\ pc \in NoisePasses
  /\ todo = <<>>
  /\ pc' = (CASE pc = "selector" -> "class" [] pc = "class" -> "id" [] OTHER -> "noise")
  /\ todo' = (CASE pc = "selector" -> Candidates(scope, "class")
                [] pc = "class" -> Candidates(scope, "id")
                [] OTHER -> <<>>)
  /\ UNCHANGED <<pass, base, doc, scope, out, first, orig, grab, sheet, push>>

----------------------------------------------------------------------------
(* cleanFacultyText: the plain-text entry point                            *)
(* The string $.html gives is taken as a sequence of raw items: a tag or a *)
(* comment (a lexeme, taken whole), or one character of the string.        *)

RawCh(c, n) == [k |-> "ch", tag |-> "", attrs |-> <<>>, c |-> c, n |-> n, w |-> 1]
RawStr(str) == [i \in 1..Len(str) |-> RawCh(CharAt(str, i), 1)]

\* a character of text as the serialiser writes it
Escaped(lx) ==
  CASE lx.c = "&" -> RawStr("&amp;")
    [] lx.c = "<" -> RawStr("&lt;")
    [] lx.c = ">" -> RawStr("&gt;")
    [] lx.c = "U+00A0" -> RawStr("&nbsp;")
    [] OTHER -> <<RawCh(lx.c, lx.n)>>

\* $.html($scope[0]) as raw items
RECURSIVE RawOf(_)
RawOf(lex) ==
  IF lex = <<>> THEN <<>>
  ELSE (IF lex[1].k = "ch" THEN Escaped(lex[1]) ELSE <<lex[1]>>) \o RawOf(Tail(lex))

\* the attributes of a tag as they stand in the string
RECURSIVE AttrChars(_)
AttrChars(as) ==
  IF as = <<>> THEN <<>>
  ELSE RawStr(" " \o as[1].name \o "=\"" \o as[1].val \o "\"") \o AttrChars(Tail(as))

\* h.replace(/<br\s*\/?/gi, '\n'): the pattern ends before the ">" of the
\* tag, so "<br" goes and what follows it in the tag stays as text
RECURSIVE BrToNewline(_)
BrToNewline(raw) ==
  IF raw = <<>> THEN <<>>
  ELSE (IF raw[1].k = "open" /\ raw[1].tag = "br"
        THEN <<RawCh("\n", 1)>> \o AttrChars(raw[1].attrs) \o <<RawCh(">", 1)>>
        ELSE <<raw[1]>>) \o BrToNewline(Tail(raw))

\* the last item of the run of white space that follows item i
RECURSIVE WsEnd(_, _)
WsEnd(raw, i) ==
  IF i < Len(raw) /\ raw[i + 1].k = "ch" /\ IsWs(raw[i + 1].c) THEN WsEnd(raw, i + 1) ELSE i

\* h.replace(new RegExp(`</(?:${blockNames})>\\s*`, 'gi'), '\n')
RECURSIVE BlockCloseToNewline(_, _)
BlockCloseToNewline(raw, i) ==
  IF i > Len(raw) THEN <<>>
  ELSE IF raw[i].k = "close" /\ raw[i].tag \in BLOCK_TAGS
       THEN <<RawCh("\n", 1)>> \o BlockCloseToNewline(raw, WsEnd(raw, i) + 1)
       ELSE <<raw[i]>> \o BlockCloseToNewline(raw, i + 1)

\* h.replace(/<[^>]+>/g, ' '): every tag and comment left becomes a space
\* (no attribute value and no comment of the model holds ">")
StripTags(raw) ==
  [i \in 1..Len(raw) |-> IF raw[i].k = "ch" THEN raw[i] ELSE RawCh(" ", 1)]

\* the raw characters as a text
RawText(raw) == Canon([i \in 1..Len(raw) |-> [c |-> raw[i].c, n |-> raw[i].n]])

\* text.replace(/p/g, r) for a pattern p of plain characters
RECURSIVE ReplaceAll(_, _, _, _)
ReplaceAll(s, i, p, r) ==
  IF i > Len(s) THEN <<>>
  ELSE IF MatchAt(s, i, p) THEN r \o ReplaceAll(s, i + Len(p), p, r)
       ELSE <<s[i]>> \o ReplaceAll(s, i + 1, p, r)

\* decodeEntities: the named entities, one replace after the other (the
\* numeric ones, &#n; and &#xh;, do not occur in the texts of the model)
decodeEntities(text) ==
  LET a == ReplaceAll(text, 1, Pat("&nbsp;"), <<Ch(" ")>>)
      b == ReplaceAll(a, 1, Pat("&amp;"), <<Ch("&")>>)
      c == ReplaceAll(b, 1, Pat("&lt;"), <<Ch("<")>>)
      d == ReplaceAll(c, 1, Pat("&gt;"), <<Ch(">")>>)
      e == ReplaceAll(d, 1, Pat("&quot;"), <<Ch("\"")>>)
  IN ReplaceAll(e, 1, Pat("&#39;"), <<Ch("'")>>)

\* h.replace(/\r\n?/g, '\n')
RECURSIVE ReplaceCr(_, _)
ReplaceCr(s, i) ==
  IF i > Len(s) THEN <<>>
  ELSE IF s[i].c = "\r"
       THEN <<Ch("\n")>> \o ReplaceCr(s, IF i < Len(s) /\ s[i + 1].c = "\n" THEN i + 2 ELSE i + 1)
       ELSE <<s[i]>> \o ReplaceCr(s, i + 1)

\* h.replace(/[set]+/g, rep)
RECURSIVE ReplaceRuns(_, _, _, _)
ReplaceRuns(s, i, set, rep) ==
  IF i > Len(s) THEN <<>>
  ELSE IF s[i].c \in set THEN rep \o ReplaceRuns(s, RunEnd(s, i, set) + 1, set, rep)
       ELSE <<s[i]>> \o ReplaceRuns(s, i + 1, set, rep)

\* h.replace(/ *\n+ */g, '\n'): spaces, one line break or more, spaces
RECURSIVE TrimAroundNewlines(_, _)
TrimAroundNewlines(s, i) ==
  IF i > Len(s) THEN <<>>
  ELSE LET j == IF s[i].c = " " THEN RunEnd(s, i, {" "}) + 1 ELSE i
       IN IF j <= Len(s) /\ s[j].c = "\n"
          THEN LET k == RunEnd(s, j, {"\n"})
                   l == IF k < Len(s) /\ s[k + 1].c = " " THEN RunEnd(s, k + 1, {" "}) ELSE k
               IN <<Ch("\n")>> \o TrimAroundNewlines(s, l + 1)
          ELSE <<s[i]>> \o TrimAroundNewlines(s, i + 1)

\* h.replace(/\n{3,}/g, '\n\n')
RECURSIVE CapNewlines(_, _)
CapNewlines(s, i) ==
  IF i > Len(s) THEN <<>>
  ELSE IF s[i].c = "\n" /\ RunEnd(s, i, {"\n"}) >= i + 2
       THEN <<Ch("\n"), Ch("\n")>> \o CapNewlines(s, RunEnd(s, i, {"\n"}) + 1)
       ELSE <<s[i]>> \o CapNewlines(s, i + 1)

\* lines 479-494: the string of a tree, its tags taken out
TagStripped(tree) ==
  LET h == StripTags(BlockCloseToNewline(BrToNewline(RawOf(Serialize(tree))), 1))
      a == ReplaceCr(decodeEntities(RawText(h)), 1)
      b == ReplaceRuns(a, 1, {"\t", "U+000B", "\f", "U+00A0"}, <<Ch(" ")>>)
      c == CapNewlines(TrimAroundNewlines(b, 1), 1)
  IN Trim(Canon(CollapseRuns(c, 1, {" "}, " ")))

\* the tree cleanFacultyText serialises: the scope after its three stages
TextTree(d) == simplifyFormControls(removeForcedTags(removeOrUnwrapNoise(selectScope(d))))

cleanFacultyText(d) == TagStripped(TextTree(d))

\* cleanFacultyText(html, sourceUrl) as one step: out is the text returned
TextStep ==
  /\ pc = "loaded"
  /\ pass = 1
  /\ scope' = TextTree(doc)
  /\ orig' = selectScope(doc)
  /\ out' = [i \in 1..Len(cleanFacultyText(doc)) |->
               RawCh(cleanFacultyText(doc)[i].c, cleanFacultyText(doc)[i].n)]
  /\ pc' = "text"
  /\ UNCHANGED <<pass, base, doc, first, todo, grab, sheet, push>>

----------------------------------------------------------------------------
(* The inputs: html (as the document load(html) makes) and sourceUrl       *)

MaxKids == 2
MaxPad == 6

\* U+5C71 U+7530, a space, U+592A U+90CE: a family name and a given name
YamadaTaro == <<Ch("U+5C71"), Ch("U+7530"), Ch(" "), Ch("U+592A"), Ch("U+90CE")>>

\* the elements the children of the scope are drawn from
Items ==
  { \* noise without a guard hit
    El("header", <<>>, <<Tx(T("Global Header"))>>),
    \* noise by id, in capitals
    El("div", <<At("id", "Search-box")>>, <<El("p", <<>>, <<Tx(T("q"))>>)>>),
    \* noise around a profile link
    El("div", <<At("class", "cookie")>>,
       <<El("a", <<At("href", "/profile/abc")>>, <<Tx(T("Profile"))>>)>>),
    \* noise around a profile link that is itself flagged
    El("nav", <<>>,
       <<El("a", <<At("class", "share"), At("href", "/profile/k")>>, <<Tx(T("Go"))>>)>>),
    \* noise around a flagged wrapper of a role word, and of a name
    El("footer", <<>>, <<El("span", <<At("class", "banner")>>, <<Tx(T("Lecturer"))>>)>>),
    El("aside", <<At("class", "Side-Nav")>>, <<El("p", <<>>, <<Tx(YamadaTaro)>>)>>),
    \* noise between two texts
    El("div", <<>>, <<Tx(T("a ")), El("nav", <<>>, <<Tx(T("n"))>>), Tx(T(" b"))>>),
    \* forced tags
    El("script", <<>>, <<Tx(T("s"))>>),
    El("div", <<>>, <<El("iframe", <<At("src", "f.html")>>, <<>>), Tx(T("t"))>>),
    \* form controls: options whose text reads as markup
    El("select", <<>>,
       <<El("option", <<>>, <<Tx(T("<script>s</script>"))>>),
         El("option", <<>>, <<Tx(T("Tokyo"))>>)>>),
    El("select", <<>>, <<El("option", <<>>, <<Tx(T("<nav>n</nav>"))>>)>>),
    El("input", <<At("value", "v")>>, <<>>),
    \* anchors
    El("a", <<At("href", "./person/a")>>, <<Tx(T("A"))>>),
    El("a", <<At("href", "#same-card")>>, <<Tx(T("frag"))>>),
    El("a", <<At("href", "MailTo:a@b")>>, <<Tx(T("mail"))>>),
    El("a", <<At("href", "")>>, <<Tx(T("e"))>>),
    El("a", <<At("href", "http://[bad")>>, <<Tx(T("m"))>>),
    El("a", <<At("href", "HTTPS://Other.org")>>, <<Tx(T("o"))>>),
    \* images
    El("img", <<At("data-src", "/av.jpg")>>, <<>>),
    El("img", <<At("src", " "), At("srcset", "a.jpg 1x, b.jpg 2x")>>, <<>>),
    El("img", <<At("src", "../imgs/p.jpg"), At("data-src", "/av.jpg")>>, <<>>),
    El("img", <<At("data-lazy", "l.jpg"), At("data-original", "/o.jpg")>>, <<>>),
    El("img", <<At("data-src", " "), At("data-original", "/o.jpg")>>, <<>>),
    \* a src on an element that is no img
    El("video", <<At("src", "v.mp4")>>, <<>>),
    \* attributes to clean
    El("p", <<At("STYLE", "color:red"), At("onClick", "go()"), At("title", "t")>>,
       <<Tx(T("t"))>>) }

\* the children of the scope: up to MaxKids elements of a set
KidSeqs(items) == UNION {[1..n -> items] : n \in 1..MaxKids}

\* the scope element: a main, bare or with attributes, or the body
Shapes == {"main", "main with attributes", "body"}

ShapedDoc(shape, ks) ==
  CASE shape = "main" -> Document(El("body", <<>>, <<El("main", <<>>, ks)>>))
    [] shape = "main with attributes" ->
         Document(El("body", <<>>,
           <<El("main", <<At("style", "margin:0"), At("onclick", "go()")>>, ks)>>))
    [] OTHER -> Document(El("body", <<At("onload", "init()")>>, ks))

\* a document about as long as the limit: a long text and a short block
LongDoc(d) ==
  Document(El("body", <<>>, <<El("main", <<>>,
    <<El("div", <<>>, <<Tx(Fill(SizeLimit - 40 + d))>>),
      El("div", <<>>, <<Tx(T("t"))>>)>>)>>))

Bases == {HttpBase, BlankBase}

Init ==
  /\ pc = "loaded"
  /\ pass = 1
  /\ base \in Bases
  /\ \/ \E shape \in Shapes : \E ks \in KidSeqs(Items) : doc = ShapedDoc(shape, ks)
     \/ \E d \in 0..MaxPad : doc = LongDoc(d)
  /\ scope = doc
  /\ orig = doc
  /\ out = <<>>
  /\ first = <<>>
  /\ todo = <<>>
  /\ grab = Off /\ sheet = Off /\ push = Off

\* documents of links and images only, a styled paragraph beside them
UrlItems == {e \in Items : e.tag \in {"a", "img", "video", "p"}}

InitUrl ==
  /\ pc = "loaded"
  /\ pass = 1
  /\ base \in Bases
  /\ \E ks \in KidSeqs(UrlItems) : doc = ShapedDoc("main", ks)
  /\ scope = doc
  /\ orig = doc
  /\ out = <<>>
  /\ first = <<>>
  /\ todo = <<>>
  /\ grab = Off /\ sheet = Off /\ push = Off

Next ==
  \/ ScopeStep
  \/ NoiseStep
  \/ ForcedStep
  \/ UrlStep
  \/ FormStep
  \/ AttrStep
  \/ EmptyStep
  \/ FormatStep
  \/ BoundStep
  \/ RecleanStep

Spec == Init /\ [][Next]_vars

\* cleanFacultyHtml on the documents of links and images
SpecUrl == InitUrl /\ [][Next]_vars

\* documents that differ in where the scope is: one main, a main below a
\* div beside a second main, two main side by side, a main inside a main,
\* a main between a header and a footer, no main at all, and a frameset
\* page, which has neither a main nor a body
ScopeItems ==
  { El("header", <<>>, <<Tx(T("Global Header"))>>),
    El("div", <<At("class", "cookie")>>,
       <<El("a", <<At("href", "/profile/abc")>>, <<Tx(T("Profile"))>>)>>),
    El("script", <<>>, <<Tx(T("s"))>>),
    El("select", <<>>, <<El("option", <<>>, <<Tx(T("Tokyo"))>>)>>),
    El("p", <<At("STYLE", "color:red"), At("onClick", "go()"), At("title", "t")>>,
       <<Tx(T("t"))>>),
    El("a", <<At("href", "./person/a")>>, <<Tx(T("A"))>>) }

ScopeShapes ==
  {"main", "main below a div", "two main", "main in main", "main between", "body",
   "frameset"}

OtherMain == El("main", <<At("id", "second")>>, <<El("p", <<>>, <<Tx(T("B"))>>)>>)

ScopeDoc(shape, ks) ==
  CASE shape = "main" -> Document(El("body", <<>>, <<El("main", <<>>, ks)>>))
    [] shape = "main below a div" ->
         Document(El("body", <<>>, <<El("div", <<>>, <<El("main", <<>>, ks)>>), OtherMain>>))
    [] shape = "two main" ->
         Document(El("body", <<>>, <<El("main", <<>>, ks), OtherMain>>))
    [] shape = "main in main" ->
         Document(El("body", <<>>, <<El("main", <<>>, ks \o <<OtherMain>>)>>))
    [] shape = "main between" ->
         Document(El("body", <<>>,
           <<El("p", <<>>, <<Tx(T("Before"))>>), El("main", <<>>, ks),
             El("p", <<>>, <<Tx(T("After"))>>)>>))
    [] shape = "body" -> Document(El("body", <<>>, ks))
    [] OTHER ->
         Number(El("html", <<>>,
           <<El("head", <<>>, <<>>),
             El("frameset", <<>>,
                [i \in 1..Len(ks) |-> El("frame", <<At("src", "f.html")>>, <<>>)])>>), 1)

InitScope ==
  /\ pc = "loaded"
  /\ pass = 1
  /\ base \in Bases
  /\ \E shape \in ScopeShapes : \E ks \in KidSeqs(ScopeItems) : doc = ScopeDoc(shape, ks)
  /\ scope = doc
  /\ orig = doc
  /\ out = <<>>
  /\ first = <<>>
  /\ todo = <<>>
  /\ grab = Off /\ sheet = Off /\ push = Off

\* cleanFacultyHtml on the documents that differ in where the scope is
SpecScope == InitScope /\ [][Next]_vars

\* U+6C0F U+540D (shimei, "full name") and U+5C71 U+7530 (Yamada)
Shimei == <<Ch("U+6C0F"), Ch("U+540D")>>
Yamada == <<Ch("U+5C71"), Ch("U+7530")>>

\* what the formatting stages work on: empty containers, br runs, comments,
\* white space and labels
FormatItems ==
  { \* containers without text
    El("div", <<>>, <<>>),
    El("p", <<>>, <<Tx(T(" "))>>),
    El("span", <<>>, <<Tx(<<Ch("U+00A0")>>)>>),
    El("div", <<>>, <<El("span", <<>>, <<>>)>>),
    El("li", <<>>, <<El("ul", <<>>, <<>>)>>),
    El("div", <<>>, <<El("br", <<>>, <<>>)>>),
    El("p", <<>>, <<Cm(1)>>),
    \* br runs: three in a row, two with a comment between them, two with an
    \* element between them that the noise stage removes
    El("p", <<>>,
       <<Tx(T("a")), El("br", <<>>, <<>>), El("br", <<>>, <<>>), El("br", <<>>, <<>>),
         Tx(T("b"))>>),
    El("p", <<>>, <<Tx(T("a")), El("br", <<>>, <<>>), Cm(1), El("br", <<>>, <<>>)>>),
    El("div", <<>>,
       <<Tx(T("a")), El("br", <<>>, <<>>), El("nav", <<>>, <<Tx(T("n"))>>),
         El("br", <<>>, <<>>)>>),
    \* comments: one, two in a row, one before an element that holds one
    El("p", <<>>, <<Tx(T("k")), Cm(1)>>),
    El("div", <<>>, <<Cm(1), Cm(2), Tx(T("t"))>>),
    El("div", <<>>, <<Cm(1), El("p", <<>>, <<Tx(T("k")), Cm(2)>>)>>),
    \* white space inside a text node, and across a removed node
    El("div", <<>>, <<Tx(T("a ")), Cm(1), Tx(T(" b"))>>),
    El("div", <<>>, <<Tx(T("a ")), El("nav", <<>>, <<Tx(T("n"))>>), Tx(T(" b"))>>),
    El("p", <<>>, <<Tx(<<Ch("a"), Ch("U+00A0"), Ch("U+00A0"), Ch("b")>>)>>),
    El("p", <<>>, <<Tx(T("a \t b\n\n\nc"))>>),
    El("p", <<>>, <<Tx(Yamada \o <<Ch("U+3000")>> \o <<Ch("U+592A"), Ch("U+90CE")>>)>>),
    \* labels: with a full-width colon, with a colon and a line break, without
    \* a colon, at the end of the text, inside a longer word
    El("p", <<>>, <<Tx(Shimei \o <<Ch("U+FF1A")>> \o T("  ") \o Yamada)>>),
    El("p", <<>>, <<Tx(Shimei \o T(":\n") \o Yamada)>>),
    El("p", <<>>, <<Tx(<<Ch("U+5C02"), Ch("U+9580")>> \o T(" AI"))>>),
    El("p", <<>>, <<Tx(<<Ch("U+540D"), Ch("U+524D")>>)>>),
    El("p", <<>>, <<Tx(T("Research fields: ML"))>>),
    El("p", <<>>, <<Tx(T("Field(s): NLP"))>>) }

\* a document about as long as the limit whose last text is a label and its
\* value
LabelLongDoc(d) ==
  Document(El("body", <<>>, <<El("main", <<>>,
    <<El("div", <<>>, <<Tx(Fill(SizeLimit - 60 + d))>>),
      El("div", <<>>, <<Tx(Shimei \o T(": ") \o Fill(ClipMinCut))>>)>>)>>))

InitFormat ==
  /\ pc = "loaded"
  /\ pass = 1
  /\ base \in Bases
  /\ \/ \E ks \in KidSeqs(FormatItems) : doc = ShapedDoc("main", ks)
     \/ \E d \in 0..MaxPad : doc \in {LongDoc(d), LabelLongDoc(d)}
  /\ scope = doc
  /\ orig = doc
  /\ out = <<>>
  /\ first = <<>>
  /\ todo = <<>>
  /\ grab = Off /\ sheet = Off /\ push = Off

\* cleanFacultyHtml on the documents for the formatting stages
SpecFormat == InitFormat /\ [][Next]_vars

\* documents for the noise stage: noise with and without a guard hit, noise
\* inside noise, matched by the same loop or by different ones
NoiseItems ==
  { El("header", <<>>, <<Tx(T("Global Header"))>>),
    El("div", <<At("id", "Search-box")>>, <<El("p", <<>>, <<Tx(T("q"))>>)>>),
    El("div", <<At("class", "cookie")>>,
       <<El("a", <<At("href", "/profile/abc")>>, <<Tx(T("Profile"))>>)>>),
    El("nav", <<>>,
       <<El("a", <<At("class", "share"), At("href", "/profile/k")>>, <<Tx(T("Go"))>>)>>),
    El("footer", <<>>, <<El("span", <<At("class", "banner")>>, <<Tx(T("Lecturer"))>>)>>),
    El("aside", <<At("class", "Side-Nav")>>, <<El("p", <<>>, <<Tx(YamadaTaro)>>)>>),
    El("div", <<>>, <<Tx(T("a ")), El("nav", <<>>, <<Tx(T("n"))>>), Tx(T(" b"))>>),
    \* a nav inside a div that only the class loop matches
    El("div", <<At("class", "toolbar")>>,
       <<El("nav", <<>>, <<Tx(T("n"))>>), Tx(T("Professor"))>>),
    \* noise without a guard hit that holds more noise
    El("nav", <<>>,
       <<El("ul", <<>>, <<El("li", <<>>, <<Tx(T("Home"))>>)>>),
         El("div", <<At("class", "filter"), At("id", "facet")>>, <<Tx(T("f"))>>)>>),
    \* an element that is no noise
    El("p", <<At("class", "lead"), At("id", "intro")>>, <<Tx(T("plain"))>>) }

InitNoise ==
  /\ pc = "loaded"
  /\ pass = 1
  /\ base \in Bases
  /\ \E ks \in KidSeqs(NoiseItems) : doc = ShapedDoc("main", ks)
  /\ scope = doc
  /\ orig = doc
  /\ out = <<>>
  /\ first = <<>>
  /\ todo = <<>>
  /\ grab = Off /\ sheet = Off /\ push = Off

\* cleanFacultyHtml with the noise stage taken one callback at a time
NextNoise ==
  \/ ScopeStep
  \/ BeginNoiseStep
  \/ DecideStep
  \/ NextPassStep
  \/ ForcedStep
  \/ UrlStep
  \/ FormStep
  \/ AttrStep
  \/ EmptyStep
  \/ FormatStep
  \/ BoundStep
  \/ RecleanStep

SpecNoise == InitNoise /\ [][NextNoise]_vars

\* documents with script, style, noscript and iframe elements inside and
\* beside noise elements; the text of an iframe, and of a noscript, is a
\* text node of the element, and $(el).text() reads it
OrderItems ==
  { El("nav", <<>>,
       <<Tx(T("Menu")), El("iframe", <<At("src", "f.html")>>, <<Tx(T("Professor"))>>)>>),
    El("footer", <<>>, <<El("noscript", <<>>, <<Tx(YamadaTaro)>>), Tx(T("c"))>>),
    El("header", <<>>, <<El("script", <<>>, <<Tx(T("var x"))>>), Tx(T("Top"))>>),
    El("aside", <<>>,
       <<El("style", <<>>, <<Tx(T("p{}"))>>),
         El("a", <<At("href", "/staff/k")>>, <<Tx(T("K"))>>)>>),
    El("nav", <<>>, <<El("a", <<At("href", "/x")>>, <<Tx(T("Home"))>>)>>),
    El("div", <<At("class", "sidebar")>>,
       <<El("p", <<>>, <<Tx(T("s"))>>), El("template", <<>>, <<>>)>>),
    El("div", <<>>, <<El("iframe", <<>>, <<Tx(T("Professor"))>>), Tx(T("t"))>>),
    El("p", <<>>, <<Tx(T("plain"))>>) }

InitOrder ==
  /\ pc = "loaded"
  /\ pass = 1
  /\ base \in Bases
  /\ \E ks \in KidSeqs(OrderItems) : doc = ShapedDoc("main", ks)
  /\ scope = doc
  /\ orig = doc
  /\ out = <<>>
  /\ first = <<>>
  /\ todo = <<>>
  /\ grab = Off /\ sheet = Off /\ push = Off

\* cleanFacultyHtml on the documents with forced tags
SpecOrder == InitOrder /\ [][Next]_vars

\* n options with the same text
Opts(n, txt) == [i \in 1..n |-> El("option", <<>>, <<Tx(txt)>>)]

\* documents of form controls: selects and datalists around the two
\* thresholds, and inputs, textareas, buttons and labels with and without
\* text and value
ControlItems ==
  { El("select", <<>>, Opts(1, Fill(OptionSpamTextLen - 1))),
    El("select", <<>>, Opts(1, Fill(OptionSpamTextLen))),
    El("select", <<>>, Opts(1, Fill(OptionSpamTextLen + 1))),
    El("select", <<>>, Opts(2, <<Ch(" ")>> \o Fill((OptionSpamTextLen \div 2) - 1) \o <<Ch(" ")>>)),
    El("select", <<>>, Opts(OptionSpamCount - 1, T("o"))),
    El("select", <<>>, Opts(OptionSpamCount, T("o"))),
    El("select", <<>>, <<El("optgroup", <<>>, Opts(OptionSpamCount, T("g")))>>),
    El("select", <<>>,
       <<El("option", <<At("value", "")>>, <<>>), El("option", <<>>, <<Tx(T(" Tokyo "))>>)>>),
    El("datalist", <<>>,
       <<El("select", <<>>, Opts(2, T("d"))), El("option", <<>>, <<Tx(T("e"))>>)>>),
    El("input", <<At("value", "v")>>, <<>>),
    El("input", <<At("type", "text")>>, <<>>),
    El("button", <<>>, <<Tx(T("Go"))>>),
    El("button", <<At("value", "v")>>, <<Tx(T(" "))>>),
    El("textarea", <<At("value", " ")>>, <<>>),
    El("label", <<>>, <<El("input", <<At("value", "1")>>, <<>>)>>),
    El("label", <<>>, <<Tx(T("Name")), El("input", <<>>, <<>>)>>),
    El("p", <<>>, <<Tx(T("plain"))>>) }

InitControls ==
  /\ pc = "loaded"
  /\ pass = 1
  /\ base \in Bases
  /\ \E ks \in KidSeqs(ControlItems) : doc = ShapedDoc("main", ks)
  /\ scope = doc
  /\ orig = doc
  /\ out = <<>>
  /\ first = <<>>
  /\ todo = <<>>
  /\ grab = Off /\ sheet = Off /\ push = Off

\* cleanFacultyHtml on the documents of form controls
SpecControls == InitControls /\ [][Next]_vars

\* a string of 2^k times the length of s
RECURSIVE Doubled(_, _)
Doubled(s, k) == IF k = 0 THEN s ELSE LET h == Doubled(s, k - 1) IN h \o h

\* an attribute value longer than the limit (32,768 characters)
LongTitle == Doubled("x", 15)

\* what stands beside a long text in the documents for the truncation
ClipItems ==
  { El("div", <<>>, <<Tx(T("t"))>>),
    \* markup that alone is over the limit
    El("div", <<At("title", LongTitle)>>, <<Tx(T("k"))>>),
    El("p", <<>>, <<Tx(Fill(40))>>),
    El("p", <<>>, <<Tx(T("ab ") \o Fill(16))>>),
    El("div", <<>>,
       <<El("span", <<>>, <<Tx(T("one"))>>), Tx(T(" two ")), El("b", <<>>, <<Tx(T("three"))>>)>>),
    \* a table that is matched as noise and holds a role word
    El("table", <<At("class", "filter")>>,
       <<El("tbody", <<>>,
            <<El("tr", <<>>, <<El("td", <<>>, <<Tx(T("Professor"))>>)>>)>>)>>),
    El("table", <<>>,
       <<El("tbody", <<>>, <<El("tr", <<>>, <<El("td", <<>>, <<Tx(T("cell"))>>)>>)>>)>>) }

\* a main whose first or last child is a div of one long text
ClipDoc(d, ks, longFirst) ==
  LET long == El("div", <<>>, <<Tx(Fill(SizeLimit - 40 + d))>>)
  IN Document(El("body", <<>>,
       <<El("main", <<>>, IF longFirst THEN <<long>> \o ks ELSE ks \o <<long>>)>>))

InitClip ==
  /\ pc = "loaded"
  /\ pass = 1
  /\ base = HttpBase
  /\ \E d \in 0..MaxPad : \E ks \in KidSeqs(ClipItems) : \E longFirst \in BOOLEAN :
       doc = ClipDoc(d, ks, longFirst)
  /\ scope = doc
  /\ orig = doc
  /\ out = <<>>
  /\ first = <<>>
  /\ todo = <<>>
  /\ grab = Off /\ sheet = Off /\ push = Off

\* cleanFacultyHtml on documents about as long as the limit
SpecClip == InitClip /\ [][Next]_vars

\* documents for the two entry points: what each stage of cleanFacultyHtml
\* changes, and what the plain-text conversion rewrites
TextItems ==
  { El("header", <<>>, <<Tx(T("Global Header"))>>),
    El("div", <<At("class", "cookie")>>,
       <<El("a", <<At("href", "/profile/abc")>>, <<Tx(T("Profile"))>>)>>),
    El("script", <<>>, <<Tx(T("s"))>>),
    El("select", <<>>, <<El("option", <<>>, <<Tx(T("Tokyo"))>>)>>),
    El("a", <<At("href", "./person/a")>>, <<Tx(T("A"))>>),
    El("p", <<At("STYLE", "color:red"), At("onClick", "go()"), At("title", "t")>>,
       <<Tx(T("t"))>>),
    El("div", <<>>,
       <<El("p", <<>>, <<Tx(T("a"))>>), El("div", <<>>, <<>>), El("p", <<>>, <<Tx(T("b"))>>)>>),
    El("div", <<>>, <<Tx(T("a")), El("span", <<>>, <<>>), Tx(T("b"))>>),
    El("p", <<>>, <<Tx(T("a")), El("br", <<>>, <<>>), Tx(T("b"))>>),
    El("p", <<>>, <<Tx(<<Ch("a"), Ch("U+00A0"), Ch("&"), Ch("b")>>)>>) }

InitText ==
  /\ pc = "loaded"
  /\ pass = 1
  /\ base \in Bases
  /\ \/ \E ks \in KidSeqs(TextItems) : doc = ShapedDoc("main", ks)
     \/ \E d \in 0..MaxPad : doc = LongDoc(d)
  /\ scope = doc
  /\ orig = doc
  /\ out = <<>>
  /\ first = <<>>
  /\ todo = <<>>
  /\ grab = Off /\ sheet = Off /\ push = Off

\* the caller takes one entry point or the other
NextText ==
  \/ Next
  \/ TextStep

\* cleanFacultyHtml and cleanFacultyText on the same documents
SpecText == InitText /\ [][NextText]_vars

----------------------------------------------------------------------------
(* Properties                                                              *)

\* the elements of a subtree, its root included
ElementsWithRoot(nd) == {e \in Subtree(nd) : e.t = "el"}

\* the subtree with every text node emptied
EmptyTexts(nd) ==
  [nd EXCEPT !.kids = PutTexts(nd.kids, [i \in 1..Len(TextsKids(nd.kids)) |-> <<>>])]

\* the length of the markup alone of the scope of the input
MarkupLen == OutLen(Serialize(EmptyTexts(selectScope(doc))))

\* C1: idempotence: the second call, on the string the first call returned
\* and with the same sourceUrl, returns that same string
C1_Idempotence == (pass = 2 /\ pc = "done") => out = first

\* C1, the case: a second call has returned, with another string
C1_SecondCallDiffers == pass = 2 /\ pc = "done" /\ out # first

\* C2: size bound: the string returned is at most SizeLimit long, unless the
\* markup alone of the input is longer than SizeLimit
C2_SizeBound == (pc = "done" /\ MarkupLen <= SizeLimit) => OutLen(out) <= SizeLimit

\* C2, the case: the markup alone fits, the truncation ran, and the string
\* returned is longer than SizeLimit
C2_OverBudget ==
  /\ pc = "done"
  /\ MarkupLen <= SizeLimit
  /\ OutLen(Serialize(scope)) <= SizeLimit
  /\ OutLen(out) > SizeLimit

\* C3: when cleanFacultyHtml has completed, the scope subtree holds no
\* script, style, noscript, template or iframe element
C3_NoForcedTags ==
  pc = "done" => \A e \in ElementsWithRoot(scope) :
                   e.tag \notin {"script", "style", "noscript", "template", "iframe"}

\* C3, the case: the input had no script element outside an option, and the
\* scope of the completed call holds one
C3_ScriptFromOption ==
  /\ pc = "done"
  /\ pass = 1
  /\ \A e \in Elements(orig) : e.tag = "script" => FALSE
  /\ \E e \in Elements(scope) : e.tag = "script"

\* an attribute name that is style, or starts with on (letters of any case)
StyleOrHandler(name) ==
  ToLower(name) = "style" \/ (Len(name) >= 2 /\ ToLower(SubSeq(name, 1, 2)) = "on")

\* C4: when cleanFacultyHtml has completed, no element of the scope subtree,
\* the scope root included, has a style attribute or an on... attribute
C4_NoStyleOrHandlers ==
  pc = "done" => \A e \in ElementsWithRoot(scope) :
                   \A i \in 1..Len(e.attrs) : ~StyleOrHandler(e.attrs[i].name)

\* C4, the case: the call has completed, every proper descendant of the
\* scope root is clean, and the scope root has such an attribute
C4_RootKeepsHandler ==
  /\ pc = "done"
  /\ \A e \in Elements(scope) : \A i \in 1..Len(e.attrs) : ~StyleOrHandler(e.attrs[i].name)
  /\ \E i \in 1..Len(scope.attrs) : StyleOrHandler(scope.attrs[i].name)

\* an absolute URL: one that the URL parser takes without a base
AbsoluteUrl(v) == NewURL(v, BlankBase).ok /\ ~StartsWith(StrTrim(v), "#")

\* a value the URL stage is to leave alone
FragmentOrSpecial(v) ==
  \/ StartsWith(v, "#")
  \/ \E p \in {"mailto:", "tel:", "javascript:"} : StartsWith(ToLower(v), p)

\* C5: with an http(s) sourceUrl, every href and every src of the scope
\* subtree of the completed call, on any element, is an absolute URL, a
\* fragment reference or a mailto:/tel:/javascript: value
C5_AllUrlsAbsolute ==
  (pc = "done" /\ base = HttpBase) =>
    \A e \in ElementsWithRoot(scope) : \A i \in 1..Len(e.attrs) :
      e.attrs[i].name \in {"href", "src"} =>
        AbsoluteUrl(e.attrs[i].val) \/ FragmentOrSpecial(e.attrs[i].val)

\* C5, the case: the call has completed with an http(s) sourceUrl, and an
\* element that is neither a nor img still has a relative src
C5_RelativeSrcLeft ==
  /\ pc = "done"
  /\ base = HttpBase
  /\ \E e \in Elements(scope) :
       /\ e.tag \notin {"a", "img"}
       /\ HasAttr(e, "src")
       /\ ~AbsoluteUrl(Attr(e, "src"))
       /\ ~FragmentOrSpecial(Attr(e, "src"))

\* the string out is what cleanFacultyHtml returns, and scope is its tree:
\* the formatting is done and the truncation has nothing to do
Returned == pc = "formatted" /\ OutLen(out) <= SizeLimit

\* the elements of the returned tree that were element e of the input
After(e) == {f \in Elements(scope) : f.uid = e.uid}

\* matched as noise: by the selector list, or by a flagged part of the class
\* or of the id
IsNoise(e) ==
  NoiseMatch(e, "selector") \/ NoiseMatch(e, "class") \/ NoiseMatch(e, "id")

\* the text nodes of the returned tree that were nodes of the set us of uids,
\* as one text, in document order
RECURSIVE TextLeftKids(_, _)
TextLeftKids(ks, us) ==
  IF ks = <<>> THEN <<>>
  ELSE (CASE ks[1].t = "text" -> (IF ks[1].uid \in us THEN ks[1].data ELSE <<>>)
          [] ks[1].t = "el" -> TextLeftKids(ks[1].kids, us)
          [] OTHER -> <<>>) \o TextLeftKids(Tail(ks), us)

TextLeft(e) == Canon(TextLeftKids(scope.kids, {d.uid : d \in DescSet(e)}))

\* C6: guard preservation: of an element of the input matched as noise that
\* holds a guard hit, a guarding anchor is in the output with its href, or
\* what is left of its text in the output still has the name or role
C6_GuardPreserved ==
  Returned =>
    \A e \in Elements(orig) :
      (IsNoise(e) /\ Keep(e)) =>
        \/ \E a \in Elements(e) :
             /\ a.tag = "a"
             /\ AnchorIsProfile(a)
             /\ \E f \in After(a) : f.tag = "a" /\ (HasAttr(a, "href") => HasAttr(f, "href"))
        \/ /\ hasNameOrRoleClues(e)
           /\ KanjiName(TextLeft(e)) \/ KataName(TextLeft(e)) \/ RoleTest(TextLeft(e))

\* C6, the case: an element matched as noise had a profile anchor as its one
\* guard hit, and the output has neither the element nor the anchor
C6_GuardingAnchorLost ==
  /\ Returned
  /\ \E e \in Elements(orig) :
       /\ IsNoise(e)
       /\ hasDescendantAnchorWithProfile(e)
       /\ ~hasNameOrRoleClues(e)
       /\ After(e) = {}
       /\ \A a \in Elements(e) : a.tag = "a" => After(a) = {}

\* C7: noise elimination: after removeOrUnwrapNoise, and in the output of
\* cleanFacultyHtml, no proper descendant of the scope root is matched as noise
C7_NoNoiseLeft ==
  pc \in {"noise", "done"} => \A e \in Elements(scope) : ~IsNoise(e)

\* C7, the case: the call has completed and a nav element is in the scope
C7_NavInOutput == pc = "done" /\ \E e \in Elements(scope) : e.tag = "nav"

\* C8: anchor href rule: an href that is a fragment or mailto:/tel:/javascript:
\* is unchanged in the output, and every other href is its resolution
\* against sourceUrl (where there is one)
C8_AnchorHrefRule ==
  Returned =>
    \A a \in Elements(orig) : \A f \in After(a) :
      (a.tag = "a" /\ HasAttr(a, "href")) =>
        IF FragmentOrSpecial(Attr(a, "href"))
        THEN Attr(f, "href") = Attr(a, "href")
        ELSE NewURL(Attr(a, "href"), base).ok =>
               Attr(f, "href") = NewURL(Attr(a, "href"), base).href

\* C8, the case: sourceUrl is an http(s) URL and an anchor of the output has
\* the empty href it had in the input
C8_EmptyHrefLeft ==
  /\ Returned
  /\ base = HttpBase
  /\ \E a \in Elements(orig) : \E f \in After(a) :
       a.tag = "a" /\ HasAttr(a, "href") /\ Attr(a, "href") = "" /\ Attr(f, "href") = ""

\* the value new URL can make nothing of, against the sourceUrl at hand
Unresolvable(v) == v # "" /\ ~FragmentOrSpecial(v) /\ ~NewURL(v, base).ok
Resolvable(v) == v # "" /\ ~FragmentOrSpecial(v) /\ NewURL(v, base).ok

\* C9: a resolution that fails is a no-op: the href, or the src, keeps its
\* string; the call still returns, with every other link resolved and the
\* later stages run (no style or on... attribute below the scope root)
C9_FailedResolutionKeeps ==
  Returned =>
    /\ \A e \in Elements(orig) : \A f \in After(e) :
         /\ (e.tag = "a" /\ Unresolvable(Attr(e, "href"))) =>
              Attr(f, "href") = Attr(e, "href")
         /\ (e.tag = "img" /\ StrTrim(Attr(e, "src")) # "" /\ Unresolvable(Attr(e, "src"))) =>
              Attr(f, "src") = Attr(e, "src")
         /\ (e.tag = "a" /\ Resolvable(Attr(e, "href"))) =>
              Attr(f, "href") = NewURL(Attr(e, "href"), base).href
    /\ \A f \in Elements(scope) : \A i \in 1..Len(f.attrs) : ~StyleOrHandler(f.attrs[i].name)

\* C9, the case: an href that does not resolve is in the output as it was,
\* beside a link of the same document that was resolved
C9_KeptBesideResolved ==
  /\ Returned
  /\ \E e \in Elements(orig) : \E f \in After(e) :
       e.tag = "a" /\ Unresolvable(Attr(e, "href")) /\ Attr(f, "href") = Attr(e, "href")
  /\ \E e \in Elements(orig) : \E f \in After(e) :
       /\ e.tag = "a"
       /\ Resolvable(Attr(e, "href"))
       /\ Attr(f, "href") # Attr(e, "href")

\* a candidate that can be used: one that is not blank
RECURSIVE FirstUsable(_)
FirstUsable(seq) ==
  IF seq = <<>> THEN ""
  ELSE IF StrTrim(seq[1]) # "" THEN seq[1] ELSE FirstUsable(Tail(seq))

Candidate(e) ==
  FirstUsable(<<Attr(e, "data-src"), Attr(e, "data-original"), Attr(e, "data-lazy"),
                takeFirstFromSrcset(Attr(e, "data-srcset")),
                takeFirstFromSrcset(Attr(e, "srcset"))>>)

\* a value absolutized as an href is
Absolutized(v) ==
  IF FragmentOrSpecial(v) THEN v
  ELSE IF NewURL(v, base).ok THEN NewURL(v, base).href ELSE v

\* C10: lazy-image promotion: an img whose src is missing or blank gets the
\* first usable candidate, absolutized, as its src; an img whose src is not
\* blank keeps it, absolutized
C10_LazyImagePromoted ==
  Returned =>
    \A e \in Elements(orig) : \A f \in After(e) :
      e.tag = "img" =>
        IF StrTrim(Attr(e, "src")) # ""
        THEN Attr(f, "src") = Absolutized(Attr(e, "src"))
        ELSE Candidate(e) # "" => Attr(f, "src") = Absolutized(Candidate(e))

\* C10, the case: an img without src whose first candidate is blank and whose
\* second is not: its src in the output is not the second candidate
C10_BlankCandidateTaken ==
  /\ Returned
  /\ \E e \in Elements(orig) : \E f \in After(e) :
       /\ e.tag = "img"
       /\ ~HasAttr(e, "src")
       /\ HasAttr(e, "data-src") /\ StrTrim(Attr(e, "data-src")) = ""
       /\ Candidate(e) = Attr(e, "data-original")
       /\ Candidate(e) # ""
       /\ Attr(f, "src") # Absolutized(Candidate(e))

\* the uids of a subtree
Uids(nd) == {n.uid : n \in Subtree(nd)}

\* the node of the document that comes first, in document order, among those
\* with the tag; <<>> when there is none
FirstInOrder(d, tag) ==
  LET all == <<d>> \o Desc(d)
      at == {i \in 1..Len(all) : IsTag(all[i], {tag})}
  IN IF at = {} THEN <<>> ELSE <<all[CHOOSE i \in at : \A j \in at : i <= j]>>

\* the stages that work on the tree of the call have not all run yet, or have
\* just run
OnTree == pc \in {"scoped", "noise", "forced", "urls", "forms", "attrs", "pruned", "formatted"}

\* C11: the scope is the first main of the document in document order, else
\* the body, else a new main around the html element; every stage keeps that
\* root in place, every node of the tree the stages work on comes from the
\* selected subtree, and the string returned is one element, the scope root
C11_ScopeSelection ==
  /\ pc # "loaded" =>
       IF FirstInOrder(doc, "main") # <<>> THEN orig = FirstInOrder(doc, "main")[1]
       ELSE IF FirstInOrder(doc, "body") # <<>> THEN orig = FirstInOrder(doc, "body")[1]
       ELSE orig = El("main", <<>>, <<doc>>)
  /\ OnTree =>
       /\ scope.t = "el" /\ scope.tag = orig.tag /\ scope.uid = orig.uid
       /\ \A n \in DescSet(scope) : n.uid # 0 => n.uid \in Uids(orig)
  /\ pc \in {"formatted", "done"} =>
       /\ Len(ParseFragment(out)) = 1
       /\ IsTag(ParseFragment(out)[1], {orig.tag})

\* C11, the case: the call has returned for a document with a main below a
\* div and a second main after it; the scope is the main below the div, and
\* no node of the second main is in the tree
C11_FirstOfTwoMain ==
  /\ pc = "done"
  /\ pass = 1
  /\ \E m \in Elements(doc) :
       /\ m.tag = "main"
       /\ m.uid > orig.uid
       /\ m.uid \notin Uids(orig)
       /\ \E b \in Elements(doc) : b.tag = "body" /\ m \in {b.kids[i] : i \in 1..Len(b.kids)}
  /\ \E dv \in Elements(doc) :
       dv.tag = "div" /\ orig \in {dv.kids[i] : i \in 1..Len(dv.kids)}
  /\ IsTag(ParseFragment(out)[1], {"main"})
  /\ \A e \in Elements(ParseFragment(out)[1]) : Attr(e, "id") # "second"

\* C11, the case of a page with neither main nor body: the scope is a new
\* main around the html element
C11_SynthesizedMain ==
  /\ pc = "done"
  /\ FirstInOrder(doc, "main") = <<>>
  /\ FirstInOrder(doc, "body") = <<>>
  /\ IsTag(ParseFragment(out)[1], {"main"})

\* a structural container with no descendant of the useful set and no text
\* but white space
EmptyContainer(e) ==
  /\ IsTag(e, {"div", "section", "article", "p", "span", "li"})
  /\ ~\E d \in Elements(e) :
        d.tag \in {"a", "img", "table", "thead", "tbody", "tr", "td", "th", "dl", "dt",
                   "dd", "ul", "ol", "h1", "h2", "h3", "h4", "h5", "h6"}
  /\ \A i \in 1..Len(TextOf(e)) : IsWs(TextOf(e)[i].c)

\* C12: after the call has completed, truncated outputs included, no div,
\* section, article, p, span or li of the scope subtree is an empty container
C12_NoEmptyContainers ==
  pc = "done" => \A e \in Elements(scope) : ~EmptyContainer(e)

\* C12, the case: the call has completed, and the tree holds a div whose one
\* text node was cut down to nothing by the truncation
C12_EmptiedByClip ==
  /\ pc = "done"
  /\ \E e \in Elements(scope) :
       /\ e.tag = "div"
       /\ Len(e.kids) = 1
       /\ e.kids[1].t = "text"
       /\ e.kids[1].data = <<>>
       /\ EmptyContainer(e)

\* two characters of text that follow each other in the serialised string
TextPair(lex, i, set) ==
  /\ lex[i].k = "ch" /\ lex[i + 1].k = "ch"
  /\ lex[i].c \in set /\ lex[i + 1].c \in set

\* the number of full-width spaces in a text
RECURSIVE WideSpaces(_)
WideSpaces(s) ==
  IF s = <<>> THEN 0 ELSE (IF s[1].c = "U+3000" THEN 1 ELSE 0) + WideSpaces(Tail(s))

\* C13: the text of the string returned holds no non-breaking space, no two
\* spaces or tabs in a row and no two line breaks in a row, also where the
\* text comes from two text nodes that a removal made neighbours; every text
\* node that is returned has the full-width spaces it had
C13_WhitespaceCanonical ==
  /\ pc = "done" =>
       /\ \A i \in 1..Len(out) : out[i].k = "ch" => out[i].c # "U+00A0"
       /\ \A i \in 1..(Len(out) - 1) :
            ~TextPair(out, i, {" ", "\t"}) /\ ~TextPair(out, i, {"\n"})
  /\ Returned =>
       \A n \in DescSet(orig) : \A m \in DescSet(scope) :
         (n.t = "text" /\ m.uid = n.uid) => WideSpaces(m.data) = WideSpaces(n.data)

\* C13, the case: the one child of the scope held two texts with a comment
\* between them; the call has returned, the comment is gone and the string
\* has two spaces in a row
C13_TwoSpacesAcrossComment ==
  /\ pc = "done"
  /\ pass = 1
  /\ Len(orig.kids) = 1
  /\ Len(orig.kids[1].kids) = 3
  /\ orig.kids[1].kids[1].t = "text"
  /\ orig.kids[1].kids[2].t = "comment"
  /\ orig.kids[1].kids[3].t = "text"
  /\ \A i \in 1..Len(out) : out[i].k # "cmt"
  /\ \E i \in 1..(Len(out) - 1) : TextPair(out, i, {" "})

\* the field-label tokens: shimei, namae, senmon, kenkyu bun'ya and the two
\* English ones
FieldLabels ==
  { <<"U+6C0F", "U+540D">>, <<"U+540D", "U+524D">>, <<"U+5C02", "U+9580">>,
    <<"U+7814", "U+7A76", "U+5206", "U+91CE">>, Pat("Research field"), Pat("Field(s)") }

\* the character of s at place j is c
HasAt(s, j, c) == j <= Len(s) /\ s[j].c = c

\* the label that starts at place i of s has one line break right after its
\* colon if a colon follows it, and right after the label if none does
BrokenAfter(s, i, lab) ==
  LET j == i + Len(lab)
  IN IF j <= Len(s) /\ s[j].c \in Colons
     THEN HasAt(s, j + 1, "\n") /\ ~HasAt(s, j + 2, "\n")
     ELSE HasAt(s, j, "\n") /\ ~HasAt(s, j + 1, "\n")

\* the labels of the text nodes of a tree all have their line break
LabelsBroken(root) ==
  \A n \in DescSet(root) :
    n.t = "text" =>
      \A lab \in FieldLabels : \A i \in 1..Len(n.data) :
        MatchAt(n.data, i, lab) => BrokenAfter(n.data, i, lab)

\* C14: in the tree of the completed call, every field label in a text node
\* has a line break right after its colon, or right after the label when no
\* colon follows, and never two
C14_LabelLineBreaks == pc = "done" => LabelsBroken(scope)

\* C14, the case: the call has completed, and a text node of the tree ends
\* in the label shimei and its colon, the line break after them cut away
C14_BreakCutAway ==
  /\ pc = "done"
  /\ \E n \in DescSet(scope) :
       /\ n.t = "text"
       /\ Len(n.data) = 3
       /\ n.data[1] = Shimei[1] /\ n.data[2] = Shimei[2]
       /\ n.data[3].c \in Colons

\* the lexeme at place i of the string is a br tag
BrAt(lex, i) == i >= 1 /\ i <= Len(lex) /\ lex[i].k = "open" /\ lex[i].tag = "br"

\* C15: in the string returned no br is followed at once by another br
C15_NoBrAfterBr ==
  pc = "done" => \A i \in 1..Len(out) : ~(BrAt(out, i) /\ BrAt(out, i + 1))

\* C15, the case: the one child of the scope held two br with only a comment
\* between them; the call has returned, and the string has the two br side
\* by side
C15_BrRunAcrossComment ==
  /\ pc = "done"
  /\ pass = 1
  /\ Len(orig.kids) = 1
  /\ \E i \in 1..(Len(orig.kids[1].kids) - 2) :
       /\ IsTag(orig.kids[1].kids[i], {"br"})
       /\ orig.kids[1].kids[i + 1].t = "comment"
       /\ IsTag(orig.kids[1].kids[i + 2], {"br"})
  /\ \A i \in 1..Len(out) : out[i].k # "cmt"
  /\ \E i \in 1..Len(out) : BrAt(out, i) /\ BrAt(out, i + 1)

\* C16: after the call has completed the scope subtree holds no comment node,
\* at any depth
C16_NoComments ==
  pc = "done" => \A n \in DescSet(scope) : n.t # "comment"

\* C16, the case: the one child of the scope held a comment directly followed
\* by an element with a comment in it; the call has returned, the first
\* comment is gone and the one inside the element is in the string
C16_CommentInSkippedElement ==
  /\ pc = "done"
  /\ pass = 1
  /\ Len(orig.kids) = 1
  /\ Len(orig.kids[1].kids) = 2
  /\ orig.kids[1].kids[1].t = "comment"
  /\ IsEl(orig.kids[1].kids[2])
  /\ \E c \in DescSet(orig.kids[1].kids[2]) : c.t = "comment"
  /\ Len(scope.kids) = 1
  /\ scope.kids[1].kids[1].t = "el"
  /\ \E i \in 1..Len(out) : out[i].k = "cmt"

\* C17: the text cleanFacultyText returns for a document is the tag-stripped
\* text of the tree cleanFacultyHtml has for it when its tree stages have run
\* and formatting has not
C17_TextOfSameTree ==
  (pc = "pruned" /\ pass = 1) => cleanFacultyText(doc) = TagStripped(scope)

\* C17, the case: the tree stages of cleanFacultyHtml have run and have
\* removed an empty container that the tree of cleanFacultyText still holds,
\* and the two texts differ
C17_EmptyBlockKeptInText ==
  /\ pc = "pruned"
  /\ pass = 1
  /\ \E e \in Elements(TextTree(doc)) : EmptyContainer(e)
  /\ \A e \in Elements(scope) : ~EmptyContainer(e)
  /\ cleanFacultyText(doc) # TagStripped(scope)

\* the uids of the nodes below the root of a tree, in document order
UidSeq(tree) == [i \in 1..Len(Desc(tree)) |-> Desc(tree)[i].uid]

\* a sequence without the members of a set
Without(seq, set) == SelectSeq(seq, LAMBDA x : x \notin set)

\* the uid of the parent of the node u of a tree
ParentUid(tree, u) ==
  (CHOOSE p \in Subtree(tree) : \E i \in 1..Len(p.kids) : p.kids[i].uid = u).uid

\* a node without its children
Shallow(n) == [t |-> n.t, tag |-> n.tag, attrs |-> n.attrs, data |-> n.data]

\* the element that the callback about to run is called on, if it is still
\* in the tree and the test of the running loop holds for it
Classified ==
  IF pc \in NoisePasses /\ todo # <<>> /\ Find(scope, Head(todo)) # <<>>
       /\ NoiseMatch(Find(scope, Head(todo))[1], pc)
  THEN Find(scope, Head(todo)) ELSE <<>>

\* tree b is tree a without the nodes gone: the nodes left are in the order
\* they had and are what they were, and each has the parent it had, or, if
\* that parent is the one node gone, the parent of that node
SameBut(a, b, gone, lifted) ==
  /\ Shallow(b) = Shallow(a) /\ b.uid = a.uid
  /\ UidSeq(b) = Without(UidSeq(a), gone)
  /\ \A n \in DescSet(b) :
       /\ Shallow(n) = Shallow(Find(a, n.uid)[1])
       /\ ParentUid(b, n.uid) =
            IF ParentUid(a, n.uid) \in lifted
            THEN ParentUid(a, ParentUid(a, n.uid))
            ELSE ParentUid(a, n.uid)

\* guard A on a subtree: the subtree holds an anchor with a profile href or
\* a profile label
GuardA(e) == \E a \in Subtree(e) : IsTag(a, {"a"}) /\ AnchorIsProfile(a)

\* guard B on a subtree: its text holds a name or a role word
GuardB(e) == KanjiName(TextOf(e)) \/ KataName(TextOf(e)) \/ RoleTest(TextOf(e))

\* C18: a callback on an element that is matched as noise and still in the
\* tree unwraps it when guard A or guard B holds on its subtree (its children
\* take its place, in their order) and removes its subtree when neither
\* holds; nothing else of the tree changes; and a node that has left the tree
\* is in no later tree of the call
C18_DecisionEffect ==
  [][/\ (DecideStep /\ Classified # <<>>) =>
          LET e == Classified[1]
          IN IF GuardA(e) \/ GuardB(e)
             THEN SameBut(scope, scope', {e.uid}, {e.uid})
             ELSE SameBut(scope, scope', Uids(e), {})
      /\ (pc # "loaded" /\ pc' \in {"selector", "class", "id", "noise", "forced", "urls",
                                    "forms", "attrs", "pruned", "formatted"}) =>
          \A n \in DescSet(scope') : n.uid # 0 => n.uid \in Uids(scope)
     ]_vars

\* C18 with guard A as the code computes it, over the anchors below the
\* element
C18_EffectWithCodeGuard ==
  [][(DecideStep /\ Classified # <<>>) =>
        LET e == Classified[1]
        IN IF (\E a \in Elements(e) : a.tag = "a" /\ AnchorIsProfile(a)) \/ GuardB(e)
           THEN SameBut(scope, scope', {e.uid}, {e.uid})
           ELSE SameBut(scope, scope', Uids(e), {})
     ]_vars

\* C18, the case: an anchor with a profile href that is itself matched as
\* noise has been classified: it is gone from the tree, and so is its text
C18_ProfileAnchorRemoved ==
  /\ pc \in NoisePasses
  /\ pass = 1
  /\ \E o \in Elements(orig) :
       /\ o.tag = "a"
       /\ NoiseMatch(o, "selector")
       /\ GuardA(o)
       /\ Find(scope, o.uid) = <<>>
       /\ \A n \in DescSet(o) : Find(scope, n.uid) = <<>>
       /\ \E i \in 1..Len(orig.kids) : \A n \in Subtree(orig.kids[i]) : Find(scope, n.uid) = <<>>

\* C18, the case: the nav around the text "n" has just been removed from
\* between two texts, and the loop goes on
C18_RemovedBetweenTexts ==
  /\ pc = "selector"
  /\ pass = 1
  /\ \E d \in Elements(scope) :
       /\ Len(d.kids) = 2
       /\ d.kids[1].t = "text" /\ d.kids[2].t = "text"
       /\ \E o \in Elements(orig) :
            /\ o.uid = d.uid
            /\ Len(o.kids) = 3
            /\ IsTag(o.kids[2], {"nav"})
            /\ ~Keep(o.kids[2])

\* C18, the case: an element with a guard hit has just been unwrapped: its
\* child, an anchor, is now a child of the scope root
C18_UnwrappedInPlace ==
  /\ pc \in NoisePasses
  /\ pass = 1
  /\ \E a \in {scope.kids[i] : i \in 1..Len(scope.kids)} :
       /\ IsTag(a, {"a"})
       /\ \E o \in Elements(orig) :
            /\ o.uid # orig.uid
            /\ NoiseMatch(o, pc) /\ Keep(o)
            /\ Find(scope, o.uid) = <<>>
            /\ o.kids = <<Find(orig, a.uid)[1]>>

-----------------------------------------------------------------------------
(* The order of the classification                                         *)

\* the elements of the tree that element e is nested in, the scope root aside
Ancestors(tree, e) == {a \in Elements(tree) : a.uid # e.uid /\ e.uid \in Uids(a)}

\* the loops of removeOrUnwrapNoise run in the order selector, class, id
PassOrder ==
  /\ pc = "scoped" /\ pc' \in NoisePasses => pc' = "selector"
  /\ pc = "selector" /\ pc' # pc => pc' = "class"
  /\ pc = "class" /\ pc' # pc => pc' = "id"
  /\ pc = "id" /\ pc' # pc => pc' = "noise"

\* C19: the selector loop runs before the class loop and the id loop, and
\* when a callback classifies a matched element, no element it is nested in
\* is matched as noise by any of the three loops and still waiting for its
\* own callback
C19_OuterBeforeInner ==
  [][/\ PassOrder
     /\ (DecideStep /\ Classified # <<>>) =>
          \A a \in Ancestors(scope, Classified[1]) : ~IsNoise(a)
    ]_vars

\* C19, the loops alone
C19_PassOrder == [][PassOrder]_vars

\* C19, within one loop: no element the classified one is nested in is
\* matched by the running loop
C19_OuterFirstInOneLoop ==
  [][(DecideStep /\ Classified # <<>>) =>
        \A a \in Ancestors(scope, Classified[1]) : ~NoiseMatch(a, pc)
    ]_vars

\* C19, the case: the selector loop has classified a nav, which is gone,
\* while the div it was nested in, which the class loop is going to match,
\* has not had its callback
C19_InnerClassifiedFirst ==
  /\ pc = "selector"
  /\ pass = 1
  /\ \E o \in Elements(orig) :
       /\ IsTag(o, {"nav"})
       /\ Find(scope, o.uid) = <<>>
       /\ \E a \in Ancestors(orig, o) :
            /\ NoiseMatch(a, "class") /\ ~NoiseMatch(a, "selector")
            /\ Find(scope, a.uid) # <<>>

-----------------------------------------------------------------------------
(* The order of removeOrUnwrapNoise and removeForcedTags                   *)

\* what cleanFacultyHtml returns for a scope once its first two stages have
\* left the tree t
RestOfStages(t, u) ==
  LET o == finalizeFormatting(removeEmptyBlocks(pruneEventAndStyle(
             simplifyFormControls(absolutizeLinksAndImages(t, u)))))
  IN IF OutLen(o) > SizeLimit
     THEN ensureNewlinesBetweenBlocks(Serialize(clipToLimit(selectScope(load(o)), SizeLimit)))
     ELSE o

\* cleanFacultyHtml as it is, and with removeForcedTags run first
NoiseFirst(sc, u) == RestOfStages(removeForcedTags(removeOrUnwrapNoise(sc)), u)
ForcedFirst(sc, u) == RestOfStages(removeOrUnwrapNoise(removeForcedTags(sc)), u)

\* C20: what cleanFacultyHtml returns is what it would return with
\* removeForcedTags run before removeOrUnwrapNoise
C20_OrderIndependent ==
  pc = "done" /\ pass = 1 => out = ForcedFirst(orig, base)

\* C20, the model's stages against the composition of the stage functions
C20_StagesCompose ==
  pc = "done" /\ pass = 1 => out = NoiseFirst(orig, base)

\* C20, the guards alone: no noise element of the input has a guard that
\* the content of its script, style, noscript, template and iframe elements
\* decides
C20_GuardsIgnoreForcedContent ==
  pc = "scoped" => \A e \in Elements(scope) : IsNoise(e) => Keep(e) = Keep(removeForcedTags(e))

\* C20, the case: the only child of the scope is a noise element whose one
\* name or role is the text of an iframe or a noscript below it; the call
\* has returned with the rest of its content, which is gone when the forced
\* tags are removed first
C20_KeptByIframeText ==
  /\ pc = "done"
  /\ pass = 1
  /\ Len(orig.kids) = 1
  /\ IsNoise(orig.kids[1])
  /\ Keep(orig.kids[1])
  /\ ~Keep(removeForcedTags(orig.kids[1]))
  /\ scope.kids # <<>>
  /\ removeOrUnwrapNoise(removeForcedTags(orig)).kids = <<>>
  /\ out # ForcedFirst(orig, base)

-----------------------------------------------------------------------------
(* simplifyFormControls                                                    *)

\* the option children of a control, and the text of its options, one after
\* the other
OptionChildren(e) == SelectSeq(e.kids, LAMBDA o : IsTag(o, {"option"}))

RECURSIVE OptionTextLen(_)
OptionTextLen(os) ==
  IF os = <<>> THEN 0 ELSE TLen(TextOf(os[1])) + OptionTextLen(Tail(os))

\* the threshold as stated: 20 or more option children, or option text
\* longer than 200 characters
StatedSpam(e) ==
  \/ Len(OptionChildren(e)) >= OptionSpamCount
  \/ OptionTextLen(Options(e)) > OptionSpamTextLen

\* the options of a control as stated: the bare text of each non-empty one
RECURSIVE StatedOptions(_)
StatedOptions(ks) ==
  IF ks = <<>> THEN <<>>
  ELSE LET k == ks[1]
           rest == StatedOptions(Tail(ks))
       IN IF IsTag(k, {"option"})
          THEN (IF Trim(TextOf(k)) # <<>> THEN <<Tx(Trim(TextOf(k)))>> ELSE <<>>) \o rest
          ELSE IF k.t = "el" THEN <<[k EXCEPT !.kids = StatedOptions(k.kids)]>> \o rest
          ELSE <<k>> \o rest

\* the children of an element after the select and datalist rule as stated
RECURSIVE StatedSelects(_)
StatedSelects(ks) ==
  IF ks = <<>> THEN <<>>
  ELSE LET k == ks[1]
           rest == StatedSelects(Tail(ks))
       IN IF IsTag(k, {"select", "datalist"})
          THEN IF StatedSpam(k) THEN rest
               ELSE StatedSelects(StatedOptions(k.kids)) \o rest
          ELSE IF k.t = "el" THEN <<[k EXCEPT !.kids = StatedSelects(k.kids)]>> \o rest
          ELSE <<k>> \o rest

\* C21: the form stage leaves of every select and datalist what the stated
\* rule leaves: nothing when it has 20 or more option children or more than
\* 200 characters of option text, otherwise the bare text of its non-empty
\* options in its place
C21_SelectThreshold ==
  [][FormStep => scope'.kids = ChromeLoop(StatedSelects(scope.kids))]_vars

\* C21, the case: the only child of the scope was a select with one option
\* of exactly 200 characters, and the form stage has left nothing of it
C21_Exactly200Removed ==
  /\ pc = "forms"
  /\ pass = 1
  /\ Len(orig.kids) = 1
  /\ IsTag(orig.kids[1], {"select"})
  /\ Len(Options(orig.kids[1])) = 1
  /\ OptionTextLen(Options(orig.kids[1])) = OptionSpamTextLen
  /\ scope.kids = <<>>

\* the inputs, textareas, buttons and labels of a tree that are outside
\* every select and datalist
Chrome(tree) ==
  {e \in Elements(tree) :
     /\ e.tag \in {"input", "textarea", "button", "label"}
     /\ \A s \in Elements(tree) : IsTag(s, {"select", "datalist"}) => e.uid \notin Uids(s)}

\* non-empty visible text after trimming, or a non-empty value attribute
HasTextOrValue(e) == Trim(TextOf(e)) # <<>> \/ StrTrim(Attr(e, "value")) # ""

\* C22: the form stage removes an input, textarea, button or label exactly
\* when it has neither non-empty trimmed text nor a non-empty value
C22_ChromeRule ==
  [][FormStep => \A e \in Chrome(scope) : (Find(scope', e.uid) = <<>>) <=> ~HasTextOrValue(e)]_vars

\* C22, the elements that are in no other removed element: of these, one
\* with trimmed text is kept and one with neither text nor value is removed
C22_TextKeptBareRemoved ==
  [][FormStep =>
       \A e \in Chrome(scope) :
         /\ Trim(TextOf(e)) # <<>> => Find(scope', e.uid) # <<>>
         /\ ~HasTextOrValue(e) => Find(scope', e.uid) = <<>>
    ]_vars

\* C22, the case: the only child of the scope was a button with a value and
\* with text of white space only, and the form stage has removed it
C22_ValueHiddenByBlankText ==
  /\ pc = "forms"
  /\ pass = 1
  /\ Len(orig.kids) = 1
  /\ IsTag(orig.kids[1], {"input", "textarea", "button", "label"})
  /\ TextOf(orig.kids[1]) # <<>>
  /\ Trim(TextOf(orig.kids[1])) = <<>>
  /\ StrTrim(Attr(orig.kids[1], "value")) # ""
  /\ scope.kids = <<>>

-----------------------------------------------------------------------------
(* The truncation                                                          *)

\* the elements of a tree alone: tags, attributes and order, without text
\* nodes and comments
RECURSIVE Skeleton(_), SkeletonKids(_)
Skeleton(nd) == [tag |-> nd.tag, attrs |-> nd.attrs, kids |-> SkeletonKids(nd.kids)]
SkeletonKids(ks) ==
  IF ks = <<>> THEN <<>>
  ELSE (IF ks[1].t = "el" THEN <<Skeleton(ks[1])>> ELSE <<>>) \o SkeletonKids(Tail(ks))

\* the tree that finalizeFormatting serialises, for a scope as selected
Formatted(sc, u) ==
  FormatTree(removeEmptyBlocks(pruneEventAndStyle(simplifyFormControls(
    absolutizeLinksAndImages(removeForcedTags(removeOrUnwrapNoise(sc)), u)))))

\* C23: when the formatted output is over the limit, the tree of the string
\* returned has the elements of the formatted tree, with their attributes
\* and in their order; when it is not, the string and the tree are left
\* as they are
C23_StructureKept ==
  [][BoundStep =>
       IF OutLen(out) > SizeLimit
       THEN Skeleton(scope') = Skeleton(scope)
       ELSE out' = out /\ scope' = scope
    ]_vars

\* C23, clipToLimit alone: the tree it leaves differs from the tree it was
\* given in the data of text nodes only
C23_ClipChangesTextOnly ==
  [][BoundStep =>
       LET given == selectScope(load(out))
       IN /\ Skeleton(clipToLimit(given, SizeLimit)) = Skeleton(given)
          /\ Len(Desc(clipToLimit(given, SizeLimit))) = Len(Desc(given))
    ]_vars

\* C23, the case: the formatted tree held the cells of an unwrapped table
\* and was over the limit; the call has returned, and the tree of its
\* result has no cell
C23_TablePartsLost ==
  /\ pc = "done"
  /\ pass = 1
  /\ OutLen(ensureNewlinesBetweenBlocks(Serialize(Formatted(orig, base)))) > SizeLimit
  /\ \E e \in Elements(Formatted(orig, base)) : e.tag = "td"
  /\ \A e \in Elements(scope) : e.tag # "td"
  /\ Skeleton(scope) # Skeleton(Formatted(orig, base))

\* the while loop with a bound that lets it run on
RECURSIVE ClipIteratesLate(_, _, _, _, _)
ClipIteratesLate(root, ds, nTexts, iterations, limit) ==
  LET len == OutLen(Serialize([root EXCEPT !.kids = PutTexts(root.kids, ds)]))
  IN IF len > limit /\ iterations < 2 * (nTexts + ClipExtraIterations)
     THEN <<ds>> \o ClipIteratesLate(root, ClipBackward(ds, Len(ds), len - limit), nTexts,
                                    iterations + 1, limit)
     ELSE <<>>

\* the texts at the start of each iteration of the while loop that
\* clipToLimit runs on a tree, in the order of the iterations
RECURSIVE ClipIterates(_, _, _, _, _)
ClipIterates(root, ds, nTexts, iterations, limit) ==
  LET len == OutLen(Serialize([root EXCEPT !.kids = PutTexts(root.kids, ds)]))
  IN IF len > limit /\ iterations < nTexts + ClipExtraIterations
     THEN <<ds>> \o ClipIterates(root, ClipBackward(ds, Len(ds), len - limit), nTexts,
                                iterations + 1, limit)
     ELSE <<>>

\* the overage that an iteration starts with
Overage(root, ds, limit) ==
  OutLen(Serialize([root EXCEPT !.kids = PutTexts(root.kids, ds)])) - limit

\* an iteration as stated: from the last text backward, each non-empty text
\* loses its last min(length, max(16, ceil(need / 2))) characters, and nothing
\* is cut once need <= 0
RECURSIVE StatedBackward(_, _, _)
StatedBackward(ds, i, need) ==
  IF i < 1 \/ need <= 0 THEN ds
  ELSE IF ds[i] = <<>> THEN StatedBackward(ds, i - 1, need)
  ELSE LET len == TLen(ds[i])
           cut == Min(len, Max(ClipMinCut, (need + 1) \div 2))
       IN StatedBackward([ds EXCEPT ![i] = Take(ds[i], len - cut)], i - 1, need - cut)

\* text a is the start of text b
IsPrefix(a, b) == a = Take(b, TLen(a))

\* the tree that clipToLimit is given
Given == selectScope(load(out))

\* the iterations that clipToLimit runs on it
GivenIterates ==
  ClipIterates(Given, TextsKids(Given.kids), Len(TextsKids(Given.kids)), 0, SizeLimit)

\* C24: in every iteration of clipToLimit each text is left a prefix of what
\* it was, the texts are cut from the last one backward, each by
\* min(length, max(16, ceil(need / 2))) characters, and no text is cut once
\* the overage left is <= 0
C24_BackwardCuts ==
  [][BoundStep =>
       \A k \in 1..Len(GivenIterates) :
         LET ds == GivenIterates[k]
             need == Overage(Given, ds, SizeLimit)
         IN ClipBackward(ds, Len(ds), need) = StatedBackward(ds, Len(ds), need)
    ]_vars

\* C24, the parts about the order and the prefixes: a text is left a prefix
\* of what it was, and a text is shortened only if every non-empty text
\* after it is
C24_PrefixesFromTheEnd ==
  [][BoundStep =>
       \A k \in 1..Len(GivenIterates) :
         LET ds == GivenIterates[k]
             cut == ClipBackward(ds, Len(ds), Overage(Given, ds, SizeLimit))
         IN \A i \in 1..Len(ds) :
              /\ IsPrefix(cut[i], ds[i])
              /\ cut[i] # ds[i] => \A j \in (i + 1)..Len(ds) : ds[j] # <<>> => cut[j] # ds[j]
    ]_vars

\* C24, the case: the formatted output was over the limit and its last text
\* was "ab " and 16 more characters; the call has returned, and that text is
\* "ab": the white space before the cut is gone too
C24_CutTakesWhiteSpace ==
  /\ pc = "done"
  /\ pass = 1
  /\ OutLen(ensureNewlinesBetweenBlocks(Serialize(Formatted(orig, base)))) > SizeLimit
  /\ LET before == TextsKids(Formatted(orig, base).kids)
         after == TextsKids(scope.kids)
     IN /\ before # <<>> /\ after # <<>>
        /\ before[Len(before)] = T("ab ") \o Fill(ClipMinCut)
        /\ after[Len(after)] = T("ab")

\* the tree after the texts ds are put in the place of the texts of Given
GivenWith(ds) == [Given EXCEPT !.kids = PutTexts(Given.kids, ds)]

-----------------------------------------------------------------------------
(* cleanFacultyText                                                        *)

\* the characters of a text, and the number of them that are no white space
TextChars(s) == {s[i].c : i \in 1..Len(s)}

RECURSIVE CountNonWs(_)
CountNonWs(s) ==
  IF s = <<>> THEN 0
  ELSE (IF IsWs(s[1].c) THEN 0 ELSE s[1].n) + CountNonWs(Tail(s))

\* C26: the text that cleanFacultyText returns holds nothing but characters
\* of the text of its tree, spaces and line breaks, and all of the text that
\* is no white space, whatever its length; it is trimmed, and has no two
\* spaces and no three line breaks in a row
C26_PlainText ==
  pc = "text" =>
    /\ \A i \in 1..Len(out) : out[i].c \in {" ", "\n"} \cup TextChars(TextOf(scope))
    /\ CountNonWs(out) = CountNonWs(TextOf(scope))
    /\ out # <<>> => ~IsWs(out[1].c) /\ ~IsWs(out[Len(out)].c)
    /\ \A i \in 1..Len(out) : out[i].c = " " =>
         out[i].n = 1 /\ (i < Len(out) => out[i + 1].c # " ")
    /\ \A i \in 1..(Len(out) - 2) :
         ~(out[i].c = "\n" /\ out[i + 1].c = "\n" /\ out[i + 2].c = "\n")

\* C26 without the first two parts: trimmed, no two spaces, no three line
\* breaks
C26_WhiteSpaceOnly ==
  pc = "text" =>
    /\ out # <<>> => ~IsWs(out[1].c) /\ ~IsWs(out[Len(out)].c)
    /\ \A i \in 1..Len(out) : out[i].c = " " =>
         out[i].n = 1 /\ (i < Len(out) => out[i + 1].c # " ")
    /\ \A i \in 1..(Len(out) - 2) :
         ~(out[i].c = "\n" /\ out[i + 1].c = "\n" /\ out[i + 2].c = "\n")

\* C26, the case: the tree holds a br and no text with ">", and the text
\* returned has a ">" after a line break
C26_BracketOfBrLeft ==
  /\ pc = "text"
  /\ \E e \in Elements(scope) : e.tag = "br"
  /\ ">" \notin TextChars(TextOf(scope))
  /\ \E i \in 2..Len(out) : out[i].c = ">" /\ out[i - 1].c = "\n"

----------------------------------------------------------------------------
\* grab.ts: the pool of the main function and processOne

\* a row of the input either has a URL that new URL() accepts or one that
\* it rejects (parseInput keeps every row with a non-empty url string)
RowKinds == {"good", "badurl"}

MaxRows == 3

MaxWorkers == 2

\* Math.max(1, argv.concurrency)
PoolSize(c) == IF c > 1 THEN c ELSE 1

\* one call chain of next(): where it stands, the row it holds, the locals
\* attempts and ok of processOne, and the browser that processOne launched
NewWorker ==
  [at |-> "next", row |-> 0, attempts |-> 0, ok |-> FALSE, browser |-> "none"]

\* what has happened to a row: how often rows[i++] returned it, the passes
\* of the while loop made for it, the number of the first pass that reached
\* ok = true (0 if none did), the .html files and the meta records written
\* for it, and the values processOne returned for it
NewLog ==
  [taken |-> 0, tries |-> 0, passedAt |-> 0, html |-> 0, meta |-> <<>>,
   returned |-> <<>>]

\* the state at line 323, before the first call of next()
GrabStart(rows, c) ==
  [run |-> "on", rows |-> rows, conc |-> c, i |-> 0, successCount |-> 0,
   w |-> [k \in 1..PoolSize(c) |-> NewWorker],
   log |-> [r \in 1..Len(rows) |-> NewLog]]

GrabWorkers == IF grab = Off THEN {} ELSE DOMAIN grab.w

\* pool.map(() => next()) calls next() for every member of the pool before
\* any continuation runs
Started == \A k \in GrabWorkers : grab.w[k].at # "next" \/ grab.w[k].row # 0

\* the workers go on while main waits in Promise.all, and also after
\* Promise.all has rejected, until the process ends
Running == grab # Off /\ grab.run \in {"on", "rejected"}

\* a rejection of processOne: next() rejects with it, Promise.all rejects,
\* and so does the promise of the main function, which has no handler
Rejects(k, browser) ==
  [grab EXCEPT !.w[k].at = "rejected", !.w[k].browser = browser,
               !.run = "rejected"]

\* next(), lines 317-319, with the part of processOne before its first
\* await (lines 108-113): new URL(url) throws for a URL it cannot parse
GrabNext(k) ==
  /\ Running
  /\ k \in GrabWorkers
  /\ grab.w[k].at = "next"
  /\ grab.w[k].row # 0 => Started
  /\ IF grab.i >= Len(grab.rows)
       THEN grab' = [grab EXCEPT !.w[k].at = "done"]
       ELSE LET r == grab.i + 1
                g == [grab EXCEPT !.i = r, !.log[r].taken = @ + 1,
                                  !.w[k] = [NewWorker EXCEPT !.at = "launch",
                                                             !.row = r]]
            IN grab' = IF grab.rows[r] = "badurl"
                         THEN [g EXCEPT !.w[k].at = "rejected",
                                        !.run = "rejected"]
                         ELSE g
  /\ UNCHANGED <<pc, pass, base, doc, scope, out, first, orig, todo, sheet, push>>

\* lines 114-140: ensureDir, chromium.launch, newContext, newPage and the
\* stealth set-up; each of them may reject, before or after the launch
Launch(k) ==
  /\ Running /\ Started
  /\ k \in GrabWorkers
  /\ grab.w[k].at = "launch"
  /\ \E o \in {"ready", "nolaunch", "nopage"} :
       grab' = CASE o = "ready" ->
                      [grab EXCEPT !.w[k].at = "attempt", !.w[k].browser = "open"]
                 [] o = "nolaunch" -> Rejects(k, "none")
                 [] OTHER -> Rejects(k, "open")
  /\ UNCHANGED <<pc, pass, base, doc, scope, out, first, orig, todo, sheet, push>>

\* one pass of the body of the while loop up to line 237 or to the catch at
\* line 238: attempts++, then the capture with its post-check
Attempt(k) ==
  /\ Running /\ Started
  /\ k \in GrabWorkers
  /\ grab.w[k].at = "attempt"
  /\ ~grab.w[k].ok /\ grab.w[k].attempts < 3
  /\ \E passes \in BOOLEAN :
       grab' = [grab EXCEPT !.w[k].attempts = @ + 1,
                            !.log[grab.w[k].row].tries = @ + 1,
                            !.log[grab.w[k].row].passedAt =
                               IF passes /\ @ = 0 THEN grab.w[k].attempts + 1 ELSE @,
                            !.w[k].ok = passes,
                            !.w[k].at = IF passes THEN "close" ELSE "handler"]
  /\ UNCHANGED <<pc, pass, base, doc, scope, out, first, orig, todo, sheet, push>>

\* the catch block, lines 239-255: the back-off wait, the jitter and the
\* deeper scroll are page operations outside any try; then the test of the
\* while loop at line 145
Handler(k) ==
  /\ Running /\ Started
  /\ k \in GrabWorkers
  /\ grab.w[k].at = "handler"
  /\ \E resolves \in BOOLEAN :
       grab' = IF resolves
                 THEN [grab EXCEPT !.w[k].at = IF grab.w[k].attempts < 3
                                                 THEN "attempt" ELSE "close"]
                 ELSE Rejects(k, "open")
  /\ UNCHANGED <<pc, pass, base, doc, scope, out, first, orig, todo, sheet, push>>

\* lines 260-269: the screenshot of a failure is inside a try, then
\* browser.close()
Close(k) ==
  /\ Running /\ Started
  /\ k \in GrabWorkers
  /\ grab.w[k].at = "close"
  /\ \E resolves \in BOOLEAN :
       grab' = IF resolves
                 THEN [grab EXCEPT !.w[k].at = "write", !.w[k].browser = "closed"]
                 ELSE Rejects(k, "open")
  /\ UNCHANGED <<pc, pass, base, doc, scope, out, first, orig, todo, sheet, push>>

\* the meta record of lines 276-286 and 291-302
Meta(w) == [attempts |-> w.attempts, output |-> w.ok, reason |-> ~w.ok]

\* lines 271-306 and the rest of next(), lines 320-321: the files are
\* written, processOne returns ok, successCount counts it and next() is
\* called again
Write(k) ==
  /\ Running /\ Started
  /\ k \in GrabWorkers
  /\ grab.w[k].at = "write"
  /\ LET w == grab.w[k]
         r == w.row
         html == [grab EXCEPT !.log[r].html = @ + 1]
     IN \E o \in {"written", "nohtml", "nometa"} :
          CASE o = "written" ->
                 grab' = [(IF w.ok THEN html ELSE grab) EXCEPT
                            !.log[r].meta = Append(@, Meta(w)),
                            !.log[r].returned = Append(@, w.ok),
                            !.successCount = IF w.ok THEN @ + 1 ELSE @,
                            !.w[k].at = "next"]
            [] o = "nohtml" ->
                 w.ok /\ grab' = [Rejects(k, "closed") EXCEPT !.log = grab.log]
            [] OTHER ->
                 grab' = [Rejects(k, "closed") EXCEPT
                            !.log = (IF w.ok THEN html ELSE grab).log]
  /\ UNCHANGED <<pc, pass, base, doc, scope, out, first, orig, todo, sheet, push>>

\* the rejection of the main function is unhandled: Node ends the process
\* with exit code 1 as soon as it reports it
GrabCrash ==
  /\ grab # Off /\ grab.run = "rejected"
  /\ Started
  /\ grab' = [grab EXCEPT !.run = "crashed"]
  /\ UNCHANGED <<pc, pass, base, doc, scope, out, first, orig, todo, sheet, push>>

\* a Node that only warns about the unhandled rejection: the other workers
\* run on, and the process ends when none of them has anything left to do;
\* line 324 is never reached
GrabDrain ==
  /\ grab # Off /\ grab.run = "rejected"
  /\ \A k \in GrabWorkers : grab.w[k].at \in {"done", "rejected"}
  /\ grab' = [grab EXCEPT !.run = "drained"]
  /\ UNCHANGED <<pc, pass, base, doc, scope, out, first, orig, todo, sheet, push>>

\* lines 323-324: Promise.all resolves when every chain of next() has
\* returned
GrabFinish ==
  /\ grab # Off /\ grab.run = "on"
  /\ \A k \in GrabWorkers : grab.w[k].at = "done"
  /\ grab' = [grab EXCEPT !.run = IF grab.successCount = 0 THEN "exit1" ELSE "exit0"]
  /\ UNCHANGED <<pc, pass, base, doc, scope, out, first, orig, todo, sheet, push>>

----------------------------------------------------------------------------
\* runSheet.ts: the workers of main

\* the state at line 117, before the first call of worker(): targets are
\* numbered 1..n, updates is the batch of sheet updates
SheetStart(n, c) ==
  [run |-> "on", n |-> n, conc |-> c, idx |-> 0, updates |-> <<>>,
   w |-> [k \in 1..PoolSize(c) |-> [at |-> "take", t |-> 0]],
   taken |-> [t \in 1..n |-> 0], written |-> <<>>]

SheetWorkers == IF sheet = Off THEN {} ELSE DOMAIN sheet.w

\* Array.from calls worker(i+1) for every worker before any continuation
\* runs
SheetStarted == \A k \in SheetWorkers : sheet.w[k].at # "take" \/ sheet.w[k].t # 0

\* line 100: targets[idx++], and the return when there is none
SheetTake(k) ==
  /\ sheet # Off /\ sheet.run = "on"
  /\ k \in SheetWorkers
  /\ sheet.w[k].at = "take"
  /\ sheet.w[k].t # 0 => SheetStarted
  /\ sheet' = IF sheet.idx >= sheet.n
                THEN [sheet EXCEPT !.w[k].at = "done"]
                ELSE [sheet EXCEPT !.idx = @ + 1,
                                   !.taken[sheet.idx + 1] = @ + 1,
                                   !.w[k] = [at |-> "fetch", t |-> sheet.idx + 1]]
  /\ UNCHANGED <<pc, pass, base, doc, scope, out, first, orig, todo, grab, push>>

\* lines 104-105 and the catch of lines 109-112: fetchHtml and
\* cleanFacultyHtml, either of which may throw
SheetFetch(k) ==
  /\ sheet # Off /\ sheet.run = "on" /\ SheetStarted
  /\ k \in SheetWorkers
  /\ sheet.w[k].at = "fetch"
  /\ \E fetched \in BOOLEAN :
       sheet' = IF fetched
                  THEN [sheet EXCEPT !.w[k].at = "upload"]
                  ELSE [sheet EXCEPT !.w[k].at = "delay",
                          !.updates = Append(@, [t |-> sheet.w[k].t, col |-> "M:O",
                                                 status |-> "error"])]
  /\ UNCHANGED <<pc, pass, base, doc, scope, out, first, orig, todo, grab, push>>

\* lines 106-108 and the catch of lines 109-112: uploadOrUpdateHtml and the
\* entry of the row
SheetUpload(k) ==
  /\ sheet # Off /\ sheet.run = "on" /\ SheetStarted
  /\ k \in SheetWorkers
  /\ sheet.w[k].at = "upload"
  /\ \E uploaded \in BOOLEAN :
       sheet' = [sheet EXCEPT !.w[k].at = "delay",
                   !.updates = Append(@,
                      IF uploaded
                        THEN [t |-> sheet.w[k].t, col |-> "K:O", status |-> "success"]
                        ELSE [t |-> sheet.w[k].t, col |-> "M:O", status |-> "error"])]
  /\ UNCHANGED <<pc, pass, base, doc, scope, out, first, orig, todo, grab, push>>

\* line 113: delay(250), then the next round of the loop
SheetDelay(k) ==
  /\ sheet # Off /\ sheet.run = "on" /\ SheetStarted
  /\ k \in SheetWorkers
  /\ sheet.w[k].at = "delay"
  /\ sheet' = [sheet EXCEPT !.w[k].at = "take"]
  /\ UNCHANGED <<pc, pass, base, doc, scope, out, first, orig, todo, grab, push>>

\* lines 118-126 and 129: after Promise.all, one batchUpdate with all the
\* entries, if there is any; a rejection ends the process with code 1
SheetBatch ==
  /\ sheet # Off /\ sheet.run = "on"
  /\ \A k \in SheetWorkers : sheet.w[k].at = "done"
  /\ \E resolves \in BOOLEAN :
       sheet' = IF sheet.updates = <<>> \/ resolves
                  THEN [sheet EXCEPT !.run = "exit0", !.written = sheet.updates]
                  ELSE [sheet EXCEPT !.run = "exit1"]
  /\ UNCHANGED <<pc, pass, base, doc, scope, out, first, orig, todo, grab, push>>

\* the cleaner is not part of the runs of the pools
CleanerOff ==
  /\ pc = "off"
  /\ pass = 0
  /\ base = ""
  /\ doc = <<>>
  /\ scope = <<>>
  /\ orig = <<>>
  /\ out = <<>>
  /\ first = <<>>
  /\ todo = <<>>

\* a run of grab.ts on up to MaxRows rows, or a run of runSheet.ts on up to
\* MaxRows targets, with a concurrency option from 0 to MaxWorkers
InitPool ==
  /\ CleanerOff
  /\ push = Off
  /\ \E c \in 0..MaxWorkers :
       \/ /\ sheet = Off
          /\ \E n \in 0..MaxRows : \E rows \in [1..n -> RowKinds] :
               grab = GrabStart(rows, c)
       \/ /\ grab = Off
          /\ \E n \in 0..MaxRows : sheet = SheetStart(n, c)

NextPool ==
  \/ \E k \in 1..MaxWorkers : GrabNext(k)
  \/ \E k \in 1..MaxWorkers : Launch(k)
  \/ \E k \in 1..MaxWorkers : Attempt(k)
  \/ \E k \in 1..MaxWorkers : Handler(k)
  \/ \E k \in 1..MaxWorkers : Close(k)
  \/ \E k \in 1..MaxWorkers : Write(k)
  \/ GrabCrash
  \/ GrabDrain
  \/ GrabFinish
  \/ \E k \in 1..MaxWorkers : SheetTake(k)
  \/ \E k \in 1..MaxWorkers : SheetFetch(k)
  \/ \E k \in 1..MaxWorkers : SheetUpload(k)
  \/ \E k \in 1..MaxWorkers : SheetDelay(k)
  \/ SheetBatch

\* the two pools
SpecPool == InitPool /\ [][NextPool]_vars

----------------------------------------------------------------------------
\* the process of grab.ts has ended
GrabEnded == grab # Off /\ grab.run \in {"exit0", "exit1", "crashed", "drained"}

\* the process of runSheet.ts has ended
SheetEnded == sheet # Off /\ sheet.run \in {"exit0", "exit1"}

\* the rows that a worker has taken and processOne has not yet settled
InProgress ==
  {k \in GrabWorkers : grab.w[k].at \in {"launch", "attempt", "handler", "close", "write"}}

\* the targets that a worker has taken and whose round is not yet over
SheetInProgress ==
  {k \in SheetWorkers : sheet.w[k].at \in {"fetch", "upload", "delay"}}

\* the entries of target t in a batch of sheet updates
EntriesOf(t, batch) == {j \in 1..Len(batch) : batch[j].t = t}

\* C27 for runSheet.ts: with a concurrency of at least 1, no target is taken
\* twice, at most `concurrency` targets are in progress, and when the run
\* has ended every target was taken once and has exactly one entry, success
\* or error, in the batch of sheet updates
C27_SheetExactlyOnce ==
  (sheet # Off /\ sheet.conc >= 1) =>
     /\ \A t \in 1..sheet.n :
          sheet.taken[t] <= 1 /\ Cardinality(EntriesOf(t, sheet.updates)) <= 1
     /\ Cardinality(SheetInProgress) <= sheet.conc
     /\ SheetEnded =>
          \A t \in 1..sheet.n :
            sheet.taken[t] = 1 /\ Cardinality(EntriesOf(t, sheet.updates)) = 1

\* C27 for grab.ts without the completion: no row is taken twice, processOne
\* returns at most once for a row, and at most `concurrency` rows are in
\* progress
C27_GrabNeverTwice ==
  (grab # Off /\ grab.conc >= 1) =>
     /\ \A r \in 1..Len(grab.rows) :
          grab.log[r].taken <= 1 /\ Len(grab.log[r].returned) <= 1
     /\ Cardinality(InProgress) <= grab.conc

\* C27 for grab.ts, the completion, in the runs in which line 324 is
\* reached: every row was taken once and processOne returned once for it
C27_GrabAllDoneAtLine324 ==
  (grab # Off /\ grab.conc >= 1 /\ grab.run \in {"exit0", "exit1"}) =>
     \A r \in 1..Len(grab.rows) :
       grab.log[r].taken = 1 /\ Len(grab.log[r].returned) = 1

\* C27: in grab.ts and in runSheet.ts, with a concurrency of at least 1 and
\* in every interleaving, no row is taken or processed twice, at most
\* `concurrency` rows are in progress, and when the run has ended every row
\* was taken by one worker and processed once; in runSheet.ts every target
\* has exactly one entry in the batch of sheet updates
C27_ExactlyOnce ==
  /\ C27_SheetExactlyOnce
  /\ C27_GrabNeverTwice
  /\ (grab # Off /\ grab.conc >= 1 /\ GrabEnded) =>
       \A r \in 1..Len(grab.rows) :
         grab.log[r].taken = 1 /\ Len(grab.log[r].returned) = 1

\* C27, the case: a run of grab.ts with concurrency 1 has ended, its first
\* row was taken and its last row was never taken by any worker
C27_RowSkipped ==
  /\ grab # Off /\ grab.conc = 1
  /\ GrabEnded
  /\ Len(grab.rows) >= 2
  /\ grab.log[1].taken = 1
  /\ grab.log[Len(grab.rows)].taken = 0

----------------------------------------------------------------------------
\* processOne was called for row r and has settled, by a return or by a
\* rejection
Settled(r) ==
  /\ grab.log[r].taken >= 1
  /\ \A k \in InProgress : grab.w[k].row # r

\* the four parts of C28 for one row
BoundedRetry(r) ==
  LET l == grab.log[r]
  IN /\ l.tries \in 1..3
     /\ l.passedAt # 0 => l.tries = l.passedAt
     /\ l.html >= 1 => l.passedAt # 0
     /\ Len(l.meta) = 1
     /\ l.meta[1].attempts = l.tries
     /\ l.meta[1].output = (l.html = 1)
     /\ ~l.meta[1].output => l.meta[1].reason

\* C28: when processOne has settled for a row, it has made at least one and
\* at most three attempts, none after the first attempt that passed the
\* post-check, it has written the .html file only if an attempt passed, and
\* it has written one meta record whose attempts field is the number of
\* attempts made, with output null and a reason if no attempt passed
C28_BoundedRetry ==
  grab # Off => \A r \in 1..Len(grab.rows) : Settled(r) => BoundedRetry(r)

\* C28 for the calls of processOne that returned
C28_WhenReturned ==
  grab # Off =>
    \A r \in 1..Len(grab.rows) : Len(grab.log[r].returned) >= 1 => BoundedRetry(r)

\* C28 while a call is in progress: never more than three attempts, none
\* after an attempt that passed, no .html file unless an attempt passed, and
\* a meta record only with the number of attempts made
C28_NeverTooMany ==
  grab # Off =>
    \A r \in 1..Len(grab.rows) :
      LET l == grab.log[r]
      IN /\ l.tries <= 3
         /\ l.passedAt # 0 => l.tries = l.passedAt
         /\ l.html >= 1 => l.passedAt # 0
         /\ \A j \in 1..Len(l.meta) : l.meta[j].attempts = l.tries

\* C28, the case: processOne has settled for a row whose URL does not parse,
\* with no attempt made and no meta record written
C28_NoAttemptNoMeta ==
  /\ grab # Off
  /\ \E r \in 1..Len(grab.rows) :
       /\ Settled(r)
       /\ grab.rows[r] = "badurl"
       /\ grab.log[r].tries = 0
       /\ grab.log[r].meta = <<>>

\* C28, another case: three attempts were made for a row, the retry handler
\* rejected after the third, and no meta record was written
C28_ThreeAttemptsNoMeta ==
  /\ grab # Off
  /\ \E r \in 1..Len(grab.rows) :
       /\ Settled(r)
       /\ grab.log[r].tries = 3
       /\ grab.log[r].meta = <<>>

----------------------------------------------------------------------------
\* the rows for which processOne has rejected
RejectedRows ==
  {grab.w[k].row : k \in {j \in GrabWorkers : grab.w[j].at = "rejected"}}

\* C29: processOne never rejects; when it has settled for a row, the browser
\* it launched is closed and it has returned (false, if no attempt passed);
\* when the run has ended processOne has returned for every row, and the
\* exit code is non-zero exactly when no row succeeded
C29_FailureIsolation ==
  grab # Off =>
    /\ RejectedRows = {}
    /\ \A k \in GrabWorkers :
         grab.w[k].at \in {"next", "done", "rejected"} => grab.w[k].browser # "open"
    /\ \A r \in 1..Len(grab.rows) :
         Settled(r) =>
           /\ Len(grab.log[r].returned) = 1
           /\ grab.log[r].returned[1] = (grab.log[r].passedAt # 0)
    /\ GrabEnded =>
         /\ \A r \in 1..Len(grab.rows) : Len(grab.log[r].returned) = 1
         /\ grab.run \in {"exit0", "exit1"}
         /\ grab.run = "exit1" <=> grab.successCount = 0

\* C29 in the runs without a rejection of processOne: every browser that was
\* launched is closed when processOne returns, processOne returns whether an
\* attempt passed, and the run ends with exit code 1 exactly when no row
\* succeeded, after processOne has returned for every row
C29_WhenNothingRejects ==
  (grab # Off /\ grab.run \in {"on", "exit0", "exit1"}) =>
    /\ RejectedRows = {}
    /\ \A k \in GrabWorkers :
         grab.w[k].at \in {"next", "done"} => grab.w[k].browser # "open"
    /\ \A r \in 1..Len(grab.rows) :
         Settled(r) =>
           /\ Len(grab.log[r].returned) = 1
           /\ grab.log[r].returned[1] = (grab.log[r].passedAt # 0)
    /\ GrabEnded =>
         /\ \A r \in 1..Len(grab.rows) : Len(grab.log[r].returned) = 1
         /\ grab.run = "exit1" <=> grab.successCount = 0

\* C29, the case: an attempt for a row with a good URL has failed, the
\* retry handler has rejected, processOne has rejected with the browser
\* still open, and the process has ended with a row that was never taken
C29_HandlerRejects ==
  /\ grab # Off
  /\ GrabEnded
  /\ \E k \in GrabWorkers :
       /\ grab.w[k].at = "rejected"
       /\ grab.w[k].browser = "open"
       /\ grab.w[k].attempts >= 1
       /\ grab.rows[grab.w[k].row] = "good"
  /\ \E r \in 1..Len(grab.rows) : grab.log[r].taken = 0

\* C29, another case: a row succeeded and the run did not end with exit
\* code 0, because processOne rejected for a row whose URL does not parse
C29_SuccessButNotExit0 ==
  /\ grab # Off
  /\ grab.run = "crashed"
  /\ grab.successCount >= 1
  /\ \E r \in RejectedRows : grab.rows[r] = "badurl"

----------------------------------------------------------------------------
\* pushDir.ts: the main function

MaxFiles == 3

\* the rows of the sheet below the header
PushRows == {1, 2}

\* the state at line 86: a file is given by the row that its meta record
\* and the sheet resolve it to, 0 if they resolve it to none; drive holds
\* the files created, by their place in `files`; K and J are the cells of
\* the sheet, K with the file whose link this run wrote to it (0 if none)
PushStart(files) ==
  [run |-> "on", files |-> files, pos |-> 1, at |-> "resolve", uploaded |-> 0,
   drive |-> <<>>, updates |-> <<>>,
   K |-> [r \in PushRows |-> 0], J |-> [r \in PushRows |-> "TRUE"]]

\* lines 88-122: the next file of the loop; it is skipped when no row is
\* found for it
PushResolve ==
  /\ push # Off /\ push.run = "on" /\ push.at = "resolve"
  /\ push.pos <= Len(push.files)
  /\ push' = IF push.files[push.pos] = 0
               THEN [push EXCEPT !.pos = @ + 1]
               ELSE [push EXCEPT !.at = "create"]
  /\ UNCHANGED <<pc, pass, base, doc, scope, out, first, orig, todo, grab, sheet>>

\* lines 125-136: fs.readFile and drive.files.create; a rejection leaves
\* the loop and main, and line 155 ends the process with code 1
PushCreate ==
  /\ push # Off /\ push.run = "on" /\ push.at = "create"
  /\ \E created \in BOOLEAN :
       push' = IF created
                 THEN [push EXCEPT !.at = "get", !.drive = Append(@, push.pos)]
                 ELSE [push EXCEPT !.run = "exit1"]
  /\ UNCHANGED <<pc, pass, base, doc, scope, out, first, orig, todo, grab, sheet>>

\* lines 137-145: ensureAnyoneReader ignores its errors; drive.files.get,
\* then the two entries of the row and uploaded++
PushGet ==
  /\ push # Off /\ push.run = "on" /\ push.at = "get"
  /\ \E got \in BOOLEAN :
       push' = IF got
                 THEN LET r == push.files[push.pos]
                      IN [push EXCEPT
                            !.updates = @ \o <<[col |-> "K", row |-> r, v |-> push.pos],
                                               [col |-> "J", row |-> r, v |-> "FALSE"]>>,
                            !.uploaded = @ + 1,
                            !.pos = @ + 1,
                            !.at = "resolve"]
                 ELSE [push EXCEPT !.run = "exit1"]
  /\ UNCHANGED <<pc, pass, base, doc, scope, out, first, orig, todo, grab, sheet>>

\* the cells of one column after the entries of a batch, in their order
RECURSIVE Applied(_, _, _)
Applied(cells, col, batch) ==
  IF batch = <<>> THEN cells
  ELSE LET u == Head(batch)
       IN Applied(IF u.col = col THEN [cells EXCEPT ![u.row] = u.v] ELSE cells,
                  col, Tail(batch))

\* lines 148-155: after the loop, the single batchUpdate if there is any
\* entry
PushBatch ==
  /\ push # Off /\ push.run = "on" /\ push.at = "resolve"
  /\ push.pos > Len(push.files)
  /\ \E resolves \in BOOLEAN :
       push' = IF push.updates = <<>> \/ resolves
                 THEN [push EXCEPT !.run = "exit0",
                                   !.K = Applied(@, "K", push.updates),
                                   !.J = Applied(@, "J", push.updates)]
                 ELSE [push EXCEPT !.run = "exit1"]
  /\ UNCHANGED <<pc, pass, base, doc, scope, out, first, orig, todo, grab, sheet>>

\* a run of pushDir.ts on up to MaxFiles files
InitPush ==
  /\ CleanerOff
  /\ grab = Off /\ sheet = Off
  /\ \E n \in 0..MaxFiles : \E files \in [1..n -> PushRows \cup {0}] :
       push = PushStart(files)

NextPush ==
  \/ PushResolve
  \/ PushCreate
  \/ PushGet
  \/ PushBatch

SpecPush == InitPush /\ [][NextPush]_vars

\* the run of pushDir.ts has ended
PushEnded == push # Off /\ push.run \in {"exit0", "exit1"}

\* the files in Drive, and the rows whose K cell was written
Uploads == {push.drive[j] : j \in 1..Len(push.drive)}

UpdatedRows == {r \in PushRows : push.K[r] # 0}

\* C30: at the end of a run every file uploaded to Drive has its link in
\* column K and FALSE in column J of its row, no row is updated without an
\* upload, and the number of uploads equals the number of rows updated
C30_UploadSheetConsistent ==
  PushEnded =>
    /\ \A f \in Uploads :
         push.K[push.files[f]] = f /\ push.J[push.files[f]] = "FALSE"
    /\ \A r \in UpdatedRows : push.K[r] \in Uploads /\ push.files[push.K[r]] = r
    /\ \A r \in PushRows : push.J[r] = "FALSE" => r \in UpdatedRows
    /\ Cardinality(Uploads) = Cardinality(UpdatedRows)

\* C30, the part that holds in every run: no row is updated without an
\* upload, and a row is updated with the link of a file that resolves to it
C30_NoUpdateWithoutUpload ==
  push # Off =>
    /\ \A r \in UpdatedRows : push.K[r] \in Uploads /\ push.files[push.K[r]] = r
    /\ \A r \in PushRows : push.J[r] = "FALSE" => r \in UpdatedRows

\* C30 in the runs in which no call fails and no two files resolve to the
\* same row
C30_WhenNothingFails ==
  (/\ PushEnded /\ push.run = "exit0"
   /\ \A f, g \in Uploads : push.files[f] = push.files[g] => f = g) =>
    /\ \A f \in Uploads :
         push.K[push.files[f]] = f /\ push.J[push.files[f]] = "FALSE"
    /\ Cardinality(Uploads) = Cardinality(UpdatedRows)
    /\ push.uploaded = Cardinality(Uploads)

\* C30, the case: the first file was uploaded, the upload of a later file
\* failed, and the run has ended with a file in Drive and no row updated
C30_UploadedNotWritten ==
  /\ PushEnded /\ push.run = "exit1"
  /\ push.uploaded >= 1
  /\ push.at = "create"
  /\ Uploads # {}
  /\ UpdatedRows = {}

\* C30, another case: the single batch update failed after all uploads
C30_BatchFailed ==
  /\ PushEnded /\ push.run = "exit1"
  /\ push.pos > Len(push.files)
  /\ Cardinality(Uploads) = push.uploaded
  /\ Uploads # {}
  /\ UpdatedRows = {}

\* C30, another case: every call succeeded, two files resolve to the same
\* row, and there are more uploads than rows updated
C30_TwoFilesOneRow ==
  /\ PushEnded /\ push.run = "exit0"
  /\ Cardinality(Uploads) > Cardinality(UpdatedRows)

====
